---- MODULE Spec2Model ----
(***************************************************************************)
(* OnStepXMount (telescope.py): the mount protocol driver.                 *)
(*                                                                         *)
(* Units.  Time is in whole seconds.  Right ascension is in 1e-4 hour,     *)
(* declination in 1e-3 degree, angular distances in 1e-2 arcminute, so     *)
(* that the driver's float arithmetic (hours * 15 * 60, degrees * 60) is   *)
(* exact on integers.  Distances are compared by their squares, which is   *)
(* the same comparison as the code's (a**2 + b**2)**0.5 against a          *)
(* non-negative threshold.                                                 *)
(*                                                                         *)
(* An optional value (Python None or a value) is a record [ok, v].         *)
(***************************************************************************)
EXTENDS Integers, Sequences, FiniteSets, TLC

VARIABLES
    \* link (OnStepXMount.__init__, telescope.py 139-154)
    connection_type, host, socket, serial, is_connected, is_connecting,
    \* mount info filled in by connect() (telescope.py 181-192)
    site_latitude, site_longitude, meridian_offset_east, meridian_offset_west,
    \* slew session (telescope.py 171-175)
    _slew_target, _slewing, _slew_start_time, _position_stable_since,
    _last_position,
    \* time.time(), and the number of clock advances so far
    now, ticks,
    \* the last driver call: its name, inputs, what it wrote to the link, result
    last,
    \* history of the position feed seen by the polls of the current session
    obs,
    \* command channel under concurrent callers: the Lock, each caller's
    \* position in send_command, the command it is sending, the bytes on the
    \* link in write order, and the number of calls made so far
    lock, pc, sending, wire, calls,
    \* guide pulse (telescope.py 164-168)
    pulse_guiding, pulse_guide_direction, pulse_guide_duration,
    pulse_guide_start_time, pulse_guide_end_time,
    \* replies of the device that no exchange has read yet: those waiting in
    \* the transport's receive buffer, and those still on their way
    rxbuf, online,
    \* a poll (is_slewing) run by the monitor thread while the HTTP thread
    \* makes other calls: where it is, and what it has read
    poll,
    \* the aim point the client set (telescope.py 157-158)
    target_ra, target_dec,
    \* alpaca_helpers: the server transaction counter, each request thread's
    \* position in get_next_transaction_id(), and the IDs returned so far
    _server_transaction_id, txn, returned,
    \* the focuser (focuser.py 98-117): its fields; the device behind it;
    \* each thread's position in ZWOFocuser._move_without_backlash; and the
    \* directions in which compensated moves made their last motion
    focuser, eaf, fmove, approaches,
    \* slew_to_coords / sync_to_coords under concurrent callers: the target
    \* registers of the device (:Sr, :Sd) and the motions it was told to
    \* start, and each caller's position in its three commands
    mount, caller

linkVars == <<connection_type, host, socket, serial, is_connected, is_connecting>>
siteVars == <<site_latitude, site_longitude, meridian_offset_east, meridian_offset_west>>
slewVars == <<_slew_target, _slewing, _slew_start_time, _position_stable_since, _last_position>>
chanVars == <<lock, pc, sending, wire, calls>>
guideVars == <<pulse_guiding, pulse_guide_direction, pulse_guide_duration,
               pulse_guide_start_time, pulse_guide_end_time>>
rxVars == <<rxbuf, online>>
clientVars == <<target_ra, target_dec>>
txnVars == <<_server_transaction_id, txn, returned>>
focVars == <<focuser, eaf, fmove, approaches>>
gotoVars == <<mount, caller>>
appVars == <<clientVars, txnVars, focVars, gotoVars>>
extVars == <<guideVars, rxVars, poll, appVars>>
vars == <<linkVars, siteVars, slewVars, now, ticks, last, obs, chanVars, extVars>>

----------------------------------------------------------------------------
\* Bounds of the model.

\* clock advances in one behaviour
MaxTicks == 3
\* send_command calls made by the concurrent callers in one behaviour
MaxCalls == 3
\* get_next_transaction_id calls made in one behaviour
MaxIds == 4
\* slew and sync calls made by the concurrent callers in one behaviour
MaxGotos == 3

----------------------------------------------------------------------------
\* Program constants.

\* self._slew_timeout = 120 (seconds)
_slew_timeout == 120
\* self._stability_threshold = 1.0 (arcminutes), in 1e-2 arcminute
_stability_threshold == 100
\* self._stability_duration = 2.0 (seconds)
_stability_duration == 2
\* "if total_movement > 0.1" (arcminutes), in 1e-2 arcminute
JitterThreshold == 10

----------------------------------------------------------------------------
\* Optional values.

None == [ok |-> FALSE, v |-> 0]
Some(x) == [ok |-> TRUE, v |-> x]
NoPair == [ok |-> FALSE, v |-> <<0, 0>>]
NoReply == [ok |-> FALSE, v |-> ""]
NoResponse == [ok |-> FALSE, v |-> <<>>]

\* Python truth of an optional number: neither None nor 0
Truthy(x) == x.ok /\ x.v # 0

Abs(x) == IF x < 0 THEN 0 - x ELSE x

----------------------------------------------------------------------------
\* The device and the world around the driver.

ConnectionTypes == {"network", "serial", "usb"}

\* What opening the transport can do: succeed, or raise socket.timeout,
\* ConnectionRefusedError, or another exception (serial.SerialException).
OpenOutcomes == {"ok", "timeout", "refused", "error"}

\* Coordinates as the device sends them: <<sign, whole, fraction>>, the
\* fraction in 1e-4 hour (right ascension) or 1e-3 degree (declination).
PosFar == [ra |-> <<1, 9, 5000>>, dec |-> <<1, 20, 0>>]
PosA == [ra |-> <<1, 10, 3>>, dec |-> <<1, 20, 5>>]
PosB == [ra |-> <<1, 10, 3>>, dec |-> <<1, 20, 6>>]
PosC == [ra |-> <<1, 10, 8>>, dec |-> <<1, 20, 10>>]
PosW == [ra |-> <<1, 23, 9999>>, dec |-> <<-1, 5, 0>>]
Positions == {PosFar, PosA, PosB, PosC, PosW}

\* What the device answers to the two position queries of one poll: both
\* coordinates of a position, or one or both of them missing.
Feeds ==
    [p : Positions, raOK : {TRUE}, decOK : {TRUE}]
    \cup [p : {PosFar}, raOK : BOOLEAN, decOK : {FALSE}]
    \cup [p : {PosFar}, raOK : {FALSE}, decOK : BOOLEAN]

\* Targets a client asks for: (10.0000 h, +20.000 deg), (0.0001 h, -5.000 deg)
Targets == {<<100000, 20000>>, <<1, -5000>>}

\* Replies of the device to a slew-start command: none, "0" (accepted), or an
\* error digit.
StartReplies == {NoReply, [ok |-> TRUE, v |-> "0"], [ok |-> TRUE, v |-> "1"]}

\* The threads that call the driver: an HTTP handler and the background
\* progress task.
Threads == {"http", "monitor"}

\* Commands as the bytes written to the link.
Commands == {<<":", "Q", "#">>, <<":", "G", "R", "#">>}

NotSending == [k |-> 0, bytes |-> <<>>, i |-> 0]

\* Two request threads of the HTTP server (Flask serves each request on its
\* own thread).
RequestThreads == {"request1", "request2"}

\* a thread is not inside slew_to_coords() / sync_to_coords()
NotGoing == [pc |-> "idle", op |-> "", ra |-> 0, dec |-> 0]

\* a thread is not inside ZWOFocuser._move_without_backlash()
NotMoving == [pc |-> "idle", ret |-> "None"]

\* FocuserBase.__init__
NewFocuser ==
    [is_connected |-> FALSE, lock |-> "free", moving |-> FALSE,
     current_position |-> 0, target_position |-> 0, max_position |-> 100000,
     backlash_steps |-> 0, last_direction |-> "None", backlash_enabled |-> FALSE]

\* a request thread is not inside get_next_transaction_id(); floor is the
\* largest ID returned before its call began
NotCounting == [pc |-> "idle", tmp |-> 0, floor |-> 0]

\* the monitor thread is not inside is_slewing()
NotPolling == [pc |-> "idle", ra |-> None, dec |-> None, ret |-> "None",
               began |-> <<NoPair, None>>]

\* Seconds that pass between two driver calls.
Delays == {1, 120}

\* helpers.parse_ra_hours: the reply to :GR# / :GS# as hours (1e-4 hour)
parse_ra_hours(r) == r[1] * (r[2] * 10000 + r[3])
\* helpers.parse_degrees: the reply to :GD# / :Gt# / :Gg# as degrees (1e-3 degree)
parse_degrees(r) == r[1] * (r[2] * 1000 + r[3])

----------------------------------------------------------------------------
\* Command channel, one call at a time (send_command, _send_network,
\* _send_serial), as the sequential handlers below use it.

\* _send_network: "if not self.socket: return None", and sendall on a socket
\* that never connected raises, which is caught and gives None.
\* _send_serial: "if not self.serial or not self.serial.is_open: return None".
\* No branch for another connection_type: send_command falls through to None.
LinkUsable(ctype, sock, ser) ==
    CASE ctype = "network" -> sock = "open"
      [] ctype = "serial" -> ser = "open"
      [] OTHER -> FALSE

\* send_command's guard: "if not self.is_connected: return None"
SendGuard(connected) == connected

\* The response send_command returns when the device's reply (none on a
\* timeout, a closed peer or an empty reply) is `reply`.
send_command(connected, ctype, sock, ser, reply) ==
    IF ~SendGuard(connected) THEN NoReply
    ELSE IF ~LinkUsable(ctype, sock, ser) THEN NoReply
    ELSE reply

\* What the call writes to the link.
Written(connected, ctype, sock, ser, command) ==
    IF SendGuard(connected) /\ LinkUsable(ctype, sock, ser)
    THEN <<command>> ELSE <<>>

Cmd(name) == <<name, 0>>

----------------------------------------------------------------------------
\* Slew session bookkeeping.

\* _set_slew_target
SetSlewTarget(ra_hours, dec_degrees) ==
    /\ _slew_target' = Some(<<ra_hours, dec_degrees>>)
    /\ _slewing' = TRUE
    /\ _slew_start_time' = Some(now)
    /\ _position_stable_since' = None
    /\ _last_position' = NoPair

\* _clear_slew_state
ClearSlewState ==
    /\ _slew_target' = NoPair
    /\ _slewing' = FALSE
    /\ _slew_start_time' = None
    /\ _position_stable_since' = None
    /\ _last_position' = NoPair

NoObs == [prev |-> NoPair, quietSince |-> None, steady |-> TRUE,
          everClose |-> FALSE, everFar |-> FALSE]

\* No call yet.  A call's record holds: op, ret (the result, as Python prints
\* it), sent (the commands written to the link, in order), at (the time of the
\* call), arg, reply and outcome (the call's inputs: its arguments, the
\* device's reply to its deciding command, what opening the transport did), conn and active (is_connected and
\* "a slew target is recorded" when the call began), elapsed (time since
\* _slew_start_time when the call began), ra and dec (the position a poll
\* read).
\* For send_command: k (the number of the exchange), how (what the device did
\* with the command), resp (the response returned: the pieces it is made of,
\* or None) and term (whether the read loop saw a terminator).  pulse is
\* pulse_guiding when the call began.  For the pier-side calls: gm (the
\* device's reply to :Gm#), rra and lst (the RA and the sidereal time read for
\* the current side), lst2 (the sidereal time read for the destination side),
\* ha (the hour angle the call decided on), cur and dst (the sides returned).
Idle == [op |-> "none", ret |-> "None", sent |-> <<>>, at |-> 0,
         arg |-> <<0, 0>>, reply |-> NoReply, outcome |-> "", conn |-> FALSE, active |-> FALSE,
         elapsed |-> None, ra |-> None, dec |-> None,
         k |-> 0, how |-> "", resp |-> NoResponse, term |-> FALSE,
         pulse |-> FALSE,
         gm |-> NoReply, rra |-> None, lst |-> None, lst2 |-> None, ha |-> None,
         cur |-> "", dst |-> "", ra_diff |-> None,
         text |-> [sign |-> "", whole |-> 0, minutes |-> 0, cs |-> 0], back |-> 0]

\* The record of a call.
Call(op, ret, sent) ==
    [Idle EXCEPT !.op = op, !.ret = ret, !.sent = sent,
                 !.at = now, !.conn = is_connected, !.active = _slew_target.ok,
                 !.pulse = pulse_guiding,
                 !.elapsed = IF Truthy(_slew_start_time)
                             THEN Some(now - _slew_start_time.v) ELSE None]

----------------------------------------------------------------------------
\* Initial states: OnStepXMount.__init__, for each way the application can
\* construct the driver (config: connection type, host given or not), and the
\* driver with its link up (transport open, is_connected set), the state in
\* which every device-facing operation is specified.

Init ==
    /\ connection_type \in ConnectionTypes
    /\ host \in {"", "192.168.1.100"}
    /\ is_connected \in BOOLEAN
    /\ is_connected => /\ connection_type \in {"network", "serial"}
                       /\ connection_type = "network" => host # ""
    /\ socket = IF is_connected /\ connection_type = "network" THEN "open" ELSE "none"
    /\ serial = IF is_connected /\ connection_type = "serial" THEN "open" ELSE "none"
    /\ is_connecting = FALSE
    /\ site_latitude = 0 /\ site_longitude = 0
    /\ meridian_offset_east = 0 /\ meridian_offset_west = 0
    /\ _slew_target = NoPair
    /\ _slewing = FALSE
    /\ _slew_start_time = None
    /\ _position_stable_since = None
    /\ _last_position = NoPair
    /\ now = 1
    /\ ticks = 0
    /\ last = Idle
    /\ obs = NoObs
    /\ lock = "free"
    /\ pc = [t \in Threads |-> "idle"]
    /\ sending = [t \in Threads |-> NotSending]
    /\ wire = <<>>
    /\ calls = 0
    /\ pulse_guiding = FALSE
    /\ pulse_guide_direction = "None"
    /\ pulse_guide_duration = 0
    /\ pulse_guide_start_time = 0
    /\ pulse_guide_end_time = 0
    /\ rxbuf = <<>>
    /\ online = <<>>
    /\ poll = NotPolling
    /\ target_ra = 0 /\ target_dec = 0
    /\ _server_transaction_id = 0
    /\ txn = [t \in RequestThreads |-> NotCounting]
    /\ returned = <<>>
    /\ focuser = NewFocuser
    /\ eaf = [position |-> 50000, moving |-> FALSE]
    /\ fmove = [t \in RequestThreads |-> NotMoving]
    /\ approaches = {}
    /\ mount = [ra |-> 0, dec |-> 0, started |-> <<>>]
    /\ caller = [t \in Threads |-> NotGoing]

\* time passes between two calls
Tick ==
    /\ ticks < MaxTicks
    /\ \E d \in Delays : now' = now + d
    /\ ticks' = ticks + 1
    /\ UNCHANGED <<linkVars, siteVars, slewVars, last, obs, chanVars, extVars>>

----------------------------------------------------------------------------
\* connect() and disconnect().

\* What the device reports about the site and the meridian limits:
\* :Gt# +40*00, :Gg# -074*00, :Gh# 00:30:00, :GXE0# 15, :GXE1# 30
DeviceSite == [Gt |-> <<1, 40, 0>>, Gg |-> <<-1, 74, 0>>, Gh |-> <<1, 0, 5000>>,
               GXE0 |-> 15, GXE1 |-> 30]

\* "float(response) / 15.0": degrees to hours (1e-4 hour)
DegreesToHours(deg) == (deg * 10000) \div 15

\* faulty variant: the except branches leave is_connected as it was
ConnectedAfterOpenErrorKept(connected) == connected

\* is_connected after the transport could not be opened (the except
\* branches of _connect_network and _connect_serial)
ConnectedAfterOpenError(connected) == FALSE

\* The transports the driver holds open: a handle that was connected and
\* not closed.  disconnect() closes only the handle of the configured
\* connection type, and an overwritten handle is closed when it is released.
OpenTransports(sock, ser) ==
    (IF sock = "open" THEN 1 ELSE 0) + (IF ser = "open" THEN 1 ELSE 0)

\* connect(): outcome is what opening the transport does, probe the device's
\* reply to :GVP#, answers whether the device replies to the site queries.
connect(outcome, probe, answers) ==
    LET net == connection_type = "network"
        ser == connection_type = "serial"
        attempts == (net /\ host # "") \/ ser
        opened == attempts /\ outcome = "ok"
        \* the probe goes through send_command on the new transport, with
        \* is_connected as it was when connect() was called
        product == IF opened
                   THEN send_command(is_connected, connection_type, "open", "open", probe)
                   ELSE NoReply
        probeSent == IF opened
                     THEN Written(is_connected, connection_type, "open", "open", Cmd(":GVP#"))
                     ELSE <<>>
        ok == opened /\ product.ok
        queries == <<Cmd(":Gt#"), Cmd(":Gg#"), Cmd(":Gh#"), Cmd(":GXE0#"), Cmd(":GXE1#")>>
    IN
    /\ is_connecting' = FALSE
    /\ UNCHANGED <<connection_type, host>>
    /\ socket' = IF net /\ attempts
                 THEN (IF outcome # "ok" THEN "unconnected"
                       ELSE IF ok THEN "open" ELSE "none")
                 ELSE socket
    /\ serial' = IF ser /\ opened
                 THEN (IF ok THEN "open" ELSE "none")
                 ELSE serial
    /\ is_connected' = IF ~attempts THEN is_connected
                       ELSE IF ~opened THEN ConnectedAfterOpenError(is_connected)
                       ELSE ok
    /\ IF ok /\ answers
       THEN /\ site_latitude' = parse_degrees(DeviceSite.Gt)
            /\ site_longitude' = parse_degrees(DeviceSite.Gg)
            /\ meridian_offset_east' = DegreesToHours(DeviceSite.GXE0)
            /\ meridian_offset_west' = DegreesToHours(DeviceSite.GXE1)
       ELSE UNCHANGED siteVars
    /\ last' = [Call("connect", IF ok THEN "True" ELSE "False",
                     IF ok THEN probeSent \o queries ELSE probeSent)
                EXCEPT !.reply = probe, !.outcome = outcome]
    /\ UNCHANGED <<slewVars, now, ticks, obs, chanVars, extVars>>

\* disconnect()
disconnect ==
    /\ socket' = IF connection_type = "network" /\ socket # "none" THEN "none" ELSE socket
    /\ serial' = IF connection_type = "serial" /\ serial # "none" THEN "none" ELSE serial
    /\ is_connected' = FALSE
    /\ last' = Call("disconnect", "None", <<>>)
    /\ UNCHANGED <<connection_type, host, is_connecting, siteVars, slewVars,
                   now, ticks, obs, chanVars, extVars>>

----------------------------------------------------------------------------
\* Slew handlers.

\* faulty variant: any reply counts as acceptance, as in sync_to_coords
AnyReplyAccepted(response) == response.ok

\* "if response == '0'": the slew-start command was accepted
SlewAccepted(response) == response.ok /\ response.v = "0"

\* the three commands of a slew or sync, as far as the link takes them
Sent3(c1, c2, c3) ==
    Written(is_connected, connection_type, socket, serial, c1)
    \o Written(is_connected, connection_type, socket, serial, c2)
    \o Written(is_connected, connection_type, socket, serial, c3)

\* slew_to_coords(ra_hours, dec_degrees); reply is the device's reply to :MS#
slew_to_coords(ra_hours, dec_degrees, reply) ==
    LET response == send_command(is_connected, connection_type, socket, serial, reply)
        sent == Sent3(<<":Sr", ra_hours>>, <<":Sd", dec_degrees>>, Cmd(":MS#"))
    IN
    /\ IF SlewAccepted(response)
       THEN SetSlewTarget(ra_hours, dec_degrees)
       ELSE ClearSlewState
    /\ last' = [Call("slew_to_coords",
                     IF SlewAccepted(response) THEN "True" ELSE "False", sent)
                EXCEPT !.arg = <<ra_hours, dec_degrees>>, !.reply = reply]
    /\ obs' = NoObs
    /\ UNCHANGED <<linkVars, siteVars, now, ticks, chanVars, extVars>>

\* slew_to_altaz(azimuth, altitude); reply is the device's reply to :MA#
slew_to_altaz(azimuth, altitude, reply) ==
    LET response == send_command(is_connected, connection_type, socket, serial, reply)
        sent == Sent3(<<":Sz", azimuth>>, <<":Sa", altitude>>, Cmd(":MA#"))
    IN
    /\ IF SlewAccepted(response)
       THEN /\ _slewing' = TRUE
            /\ _slew_start_time' = Some(now)
            /\ UNCHANGED <<_slew_target, _position_stable_since, _last_position>>
            /\ UNCHANGED obs
       ELSE /\ ClearSlewState
            /\ obs' = NoObs
    /\ last' = [Call("slew_to_altaz",
                     IF SlewAccepted(response) THEN "True" ELSE "False", sent)
                EXCEPT !.arg = <<azimuth, altitude>>, !.reply = reply]
    /\ UNCHANGED <<linkVars, siteVars, now, ticks, chanVars, extVars>>

\* faulty variant: stop_slew only sends :Q#
StopKeepsSession == UNCHANGED slewVars

\* what stop_slew does to the session: _clear_slew_state()
StopClears == ClearSlewState

\* stop_slew()
stop_slew ==
    /\ StopClears
    /\ last' = Call("stop_slew", "None",
                    Written(is_connected, connection_type, socket, serial, Cmd(":Q#")))
    /\ obs' = NoObs
    /\ UNCHANGED <<linkVars, siteVars, now, ticks, chanVars, extVars>>

----------------------------------------------------------------------------
\* is_slewing(): one poll of the slew monitor.

\* faulty variant: the long way round is kept
RaDiffUnfolded(current_ra, to_ra) == (Abs(current_ra - to_ra) * 15 * 60) \div 100

\* "ra_diff": |current_ra - target_ra| * 15 * 60 arcminutes, folded at 12 h
RaDiff(current_ra, to_ra) ==
    LET d == (Abs(current_ra - to_ra) * 15 * 60) \div 100
    IN IF d > 12 * 15 * 60 * 100 THEN 24 * 15 * 60 * 100 - d ELSE d

\* "dec_diff": |current_dec - target_dec| * 60 arcminutes
DecDiff(current_dec, to_dec) == (Abs(current_dec - to_dec) * 60) \div 10

\* (a**2 + b**2)**0.5 < t and (a**2 + b**2)**0.5 > t, for a, b, t >= 0
NormBelow(a, b, t) == a < t /\ b < t /\ a * a + b * b < t * t
NormAbove(a, b, t) == a > t \/ b > t \/ a * a + b * b > t * t

\* "if total_distance < self._stability_threshold"
CloseToTarget(cur, target) ==
    NormBelow(RaDiff(cur[1], target[1]), DecDiff(cur[2], target[2]),
              _stability_threshold)

\* "if total_movement > 0.1": movement since _last_position
Moved(cur, lastp) ==
    NormAbove((Abs(cur[1] - lastp[1]) * 15 * 60) \div 100,
              (Abs(cur[2] - lastp[2]) * 60) \div 10, JitterThreshold)

\* faulty variant: the timeout fires one comparison early
TimedOutAtLimit(elapsed) == elapsed >= _slew_timeout

\* "if elapsed > self._slew_timeout"
TimedOut(elapsed) == elapsed > _slew_timeout

\* faulty variant: the stability duration must be exceeded, not reached
StableTooStrict(stable_time) == stable_time > _stability_duration

\* "if stable_time >= self._stability_duration"
StableLongEnough(stable_time) == stable_time >= _stability_duration

\* "if current_ra is None or current_dec is None"
Unreadable(current_ra, current_dec) == ~current_ra.ok \/ ~current_dec.ok

\* faulty variant: a poll that cannot read the position reports completion
UnreadableGuess == "False"

\* what a poll that cannot read the position returns: "return True"
UnreadableVerdict == "True"

\* get_right_ascension / get_declination: the parsed reply, or None
get_right_ascension(reply) ==
    LET response == send_command(is_connected, connection_type, socket, serial, reply)
    IN IF response.ok THEN Some(parse_ra_hours(response.v)) ELSE None

get_declination(reply) ==
    LET response == send_command(is_connected, connection_type, socket, serial, reply)
    IN IF response.ok THEN Some(parse_degrees(response.v)) ELSE None

\* The feed as the polls of this session have seen it, after a poll at time t
\* that read position c: prev is the reading before, quietSince the time of
\* the first poll of the latest unbroken run of polls that all saw the mount
\* within the closeness threshold of the target and not displaced by more
\* than the jitter threshold from the reading before, steady whether the
\* readings so far are "any number away from the target, then one position
\* near it, held", everClose and everFar whether some reading was near the
\* target and away from it.
Observe(o, c, target, t) ==
    LET near == NormBelow(RaDiff(c[1], target[1]), DecDiff(c[2], target[2]), 100)
        displaced == o.prev.ok /\
                     NormAbove(RaDiff(c[1], o.prev.v[1]), DecDiff(c[2], o.prev.v[2]), 10)
    IN [prev |-> Some(c),
        quietSince |-> IF ~near THEN None
                       ELSE IF displaced \/ ~o.quietSince.ok THEN Some(t)
                       ELSE o.quietSince,
        steady |-> o.steady /\ (o.everClose => c = o.prev.v),
        everClose |-> o.everClose \/ near,
        everFar |-> o.everFar \/ ~near]

\* faulty variant: the polled position replaces the recorded target
RememberPositionAsTarget(cur) ==
    _last_position' = Some(cur) /\ _slew_target' = Some(cur)

\* "self._last_position = (current_ra, current_dec)": the polled position is
\* kept beside the target, which stays as recorded
RememberPosition(cur) ==
    _last_position' = Some(cur) /\ UNCHANGED _slew_target

\* is_slewing(); p is the position the device reports, raOK and decOK whether
\* it answers :GR# and :GD# at all
is_slewing(p, raOK, decOK) ==
    LET current_ra == get_right_ascension(IF raOK THEN [ok |-> TRUE, v |-> p.ra] ELSE NoReply)
        current_dec == get_declination(IF decOK THEN [ok |-> TRUE, v |-> p.dec] ELSE NoReply)
        reads == Written(is_connected, connection_type, socket, serial, Cmd(":GR#"))
                 \o Written(is_connected, connection_type, socket, serial, Cmd(":GD#"))
        cur == <<current_ra.v, current_dec.v>>
        Ret(ret, sent) == last' = Call("is_slewing", ret, sent)
        Read(ret) == last' = [Call("is_slewing", ret, reads)
                              EXCEPT !.ra = current_ra, !.dec = current_dec,
                                     !.ra_diff =
                                        IF Unreadable(current_ra, current_dec) THEN None
                                        ELSE Some(RaDiff(current_ra.v, _slew_target.v[1]))]
    IN
    /\ UNCHANGED <<linkVars, siteVars, now, ticks, chanVars, extVars>>
    /\ IF ~is_connected \/ ~_slew_target.ok
       THEN Ret("False", <<>>) /\ UNCHANGED <<slewVars, obs>>
       ELSE IF Truthy(_slew_start_time) /\ TimedOut(now - _slew_start_time.v)
       THEN Ret("False", <<>>) /\ ClearSlewState /\ UNCHANGED obs
       ELSE IF Unreadable(current_ra, current_dec)
       THEN Read(UnreadableVerdict) /\ UNCHANGED <<slewVars, obs>>
       ELSE
         /\ obs' = Observe(obs, cur, _slew_target.v, now)
         /\ IF CloseToTarget(cur, _slew_target.v)
            THEN IF ~_position_stable_since.ok
                 THEN \* just arrived near target
                      /\ _position_stable_since' = Some(now)
                      /\ RememberPosition(cur)
                      /\ UNCHANGED <<_slewing, _slew_start_time>>
                      /\ Read("True")
                 ELSE IF _last_position.ok /\ Moved(cur, _last_position.v)
                 THEN \* still changing: reset the stability timer
                      /\ _position_stable_since' = Some(now)
                      /\ RememberPosition(cur)
                      /\ UNCHANGED <<_slewing, _slew_start_time>>
                      /\ Read("True")
                 ELSE IF StableLongEnough(now - _position_stable_since.v)
                 THEN ClearSlewState /\ Read("False")
                 ELSE UNCHANGED slewVars /\ Read("True")
            ELSE \* still far from target
                 UNCHANGED slewVars /\ Read("True")

----------------------------------------------------------------------------
\* is_slewing() on the monitor thread, while the HTTP thread makes its own
\* calls.  The poll takes no lock of its own (only the exchanges inside
\* get_right_ascension and get_declination do), so other calls run between
\* its guards, its position queries and its use of the session fields.

\* the poll returns ret
PollReturns(ret) == poll' = [NotPolling EXCEPT !.ret = ret]

\* the poll has decided that the session is over (timed out, or stable
\* for long enough) and is about to call _clear_slew_state()
PollClears ==
    poll' = [NotPolling EXCEPT !.pc = "clear",
                               !.began = <<_slew_target, _slew_start_time>>]

\* the guards: not connected, no target, timed out
PollBegin ==
    /\ poll.pc = "idle"
    /\ IF ~is_connected \/ ~_slew_target.ok
       THEN PollReturns("False") /\ UNCHANGED slewVars
       ELSE IF Truthy(_slew_start_time) /\ TimedOut(now - _slew_start_time.v)
       THEN PollClears /\ UNCHANGED slewVars
       ELSE /\ poll' = [NotPolling EXCEPT !.pc = "read",
                                          !.began = <<_slew_target, _slew_start_time>>]
            /\ UNCHANGED slewVars
    /\ UNCHANGED <<linkVars, siteVars, now, ticks, last, obs, chanVars, guideVars, rxVars, appVars>>

\* the two position queries
PollRead(p, raOK, decOK) ==
    LET current_ra == get_right_ascension(IF raOK THEN [ok |-> TRUE, v |-> p.ra] ELSE NoReply)
        current_dec == get_declination(IF decOK THEN [ok |-> TRUE, v |-> p.dec] ELSE NoReply)
    IN
    /\ poll.pc = "read"
    /\ IF Unreadable(current_ra, current_dec)
       THEN PollReturns(UnreadableVerdict)
       ELSE poll' = [poll EXCEPT !.pc = "decide", !.ra = current_ra, !.dec = current_dec]
    /\ UNCHANGED <<linkVars, siteVars, slewVars, now, ticks, last, obs, chanVars,
                   guideVars, rxVars, appVars>>

\* "target_ra, target_dec = self._slew_target" and what follows; unpacking
\* None raises TypeError, which is_slewing does not catch
PollDecide ==
    LET cur == <<poll.ra.v, poll.dec.v>>
    IN
    /\ poll.pc = "decide"
    /\ IF ~_slew_target.ok
       THEN PollReturns("TypeError") /\ UNCHANGED slewVars
       ELSE IF CloseToTarget(cur, _slew_target.v)
       THEN IF ~_position_stable_since.ok
            THEN /\ _position_stable_since' = Some(now)
                 /\ _last_position' = Some(cur)
                 /\ UNCHANGED <<_slew_target, _slewing, _slew_start_time>>
                 /\ PollReturns("True")
            ELSE IF _last_position.ok /\ Moved(cur, _last_position.v)
            THEN /\ _position_stable_since' = Some(now)
                 /\ _last_position' = Some(cur)
                 /\ UNCHANGED <<_slew_target, _slewing, _slew_start_time>>
                 /\ PollReturns("True")
            ELSE IF StableLongEnough(now - _position_stable_since.v)
            THEN poll' = [poll EXCEPT !.pc = "clear"] /\ UNCHANGED slewVars
            ELSE UNCHANGED slewVars /\ PollReturns("True")
       ELSE UNCHANGED slewVars /\ PollReturns("True")
    /\ UNCHANGED <<linkVars, siteVars, now, ticks, last, obs, chanVars, guideVars, rxVars, appVars>>

\* "self._clear_slew_state(); return False", whatever the session is by now
PollClear ==
    /\ poll.pc = "clear"
    /\ ClearSlewState
    /\ PollReturns("False")
    /\ UNCHANGED <<linkVars, siteVars, now, ticks, last, obs, chanVars, guideVars, rxVars, appVars>>

\* The monitor thread polls while the HTTP thread starts and stops slews.
NextPoll ==
    \/ Tick
    \/ \E t \in Targets, r \in StartReplies : slew_to_coords(t[1], t[2], r)
    \/ stop_slew
    \/ PollBegin
    \/ \E f \in Feeds : PollRead(f.p, f.raOK, f.decOK)
    \/ PollDecide
    \/ PollClear

SpecPoll == Init /\ [][NextPoll]_vars

----------------------------------------------------------------------------
\* Pier side.  Hours are in 1e-4 hour: 12 h = 120000, 24 h = 240000.

\* replies of the device to :Gm#
GmReplies == {NoReply, [ok |-> TRUE, v |-> "E"], [ok |-> TRUE, v |-> "W"],
              [ok |-> TRUE, v |-> "e"], [ok |-> TRUE, v |-> "N"]}

\* replies to :GS# (local sidereal time): none, 0 h, 1 h, 12 h
SiderealReplies == {NoReply, [ok |-> TRUE, v |-> <<1, 0, 0>>],
                    [ok |-> TRUE, v |-> <<1, 1, 0>>], [ok |-> TRUE, v |-> <<1, 12, 0>>]}

\* replies to :GR# (right ascension): none, 0 h, 1.0001 h, 12 h, 13 h, 23 h
RaReplies == {NoReply, [ok |-> TRUE, v |-> <<1, 0, 0>>], [ok |-> TRUE, v |-> <<1, 1, 1>>],
              [ok |-> TRUE, v |-> <<1, 12, 0>>], [ok |-> TRUE, v |-> <<1, 13, 0>>],
              [ok |-> TRUE, v |-> <<1, 23, 0>>]}

\* target right ascensions a client asks about
PierTargets == {0, 9999, 10000, 10001, 120000, 130000, 229999, 230000}

\* replies to :GXE0# / :GXE1# (degrees past the meridian): none, 15, 30
OffsetReplies == {None, Some(15), Some(30)}

\* str.upper() on the replies above
Upper(x) == CASE x = "e" -> "E" [] x = "w" -> "W" [] OTHER -> x

\* "while ha > 12.0: ha -= 24.0" then "while ha < -12.0: ha += 24.0"
RECURSIVE NormalizeHourAngle(_)
NormalizeHourAngle(ha) ==
    IF ha > 120000 THEN NormalizeHourAngle(ha - 240000)
    ELSE IF ha < -120000 THEN NormalizeHourAngle(ha + 240000)
    ELSE ha

\* faulty variant: the sides are exchanged
SideFromHourAngleSwapped(ha) == IF ha < 0 THEN "pierWest" ELSE "pierEast"

\* "return PierSide.pierEast if ha < 0 else PierSide.pierWest"
SideFromHourAngle(ha) == IF ha < 0 THEN "pierEast" ELSE "pierWest"

\* get_sidereal_time: the parsed reply to :GS#, or None
get_sidereal_time(reply) ==
    LET response == send_command(is_connected, connection_type, socket, serial, reply)
    IN IF response.ok THEN Some(parse_ra_hours(response.v)) ELSE None

\* get_side_of_pier, as a function of the three replies: the side it returns,
\* the hour angle it used (None when it did not need one), the commands sent
SideOfPier(gm, raReply, lstReply) ==
    LET response == send_command(is_connected, connection_type, socket, serial, gm)
        W(c) == Written(is_connected, connection_type, socket, serial, Cmd(c))
        ra == get_right_ascension(raReply)
        lst == get_sidereal_time(lstReply)
        ha == NormalizeHourAngle(lst.v - ra.v)
    IN IF response.ok /\ Upper(response.v) = "E"
       THEN [side |-> "pierEast", ha |-> None, sent |-> W(":Gm#")]
       ELSE IF response.ok /\ Upper(response.v) = "W"
       THEN [side |-> "pierWest", ha |-> None, sent |-> W(":Gm#")]
       ELSE IF ra.ok /\ lst.ok
       THEN [side |-> SideFromHourAngle(ha), ha |-> Some(ha),
             sent |-> W(":Gm#") \o W(":GR#") \o W(":GS#")]
       ELSE [side |-> "pierUnknown", ha |-> None,
             sent |-> W(":Gm#") \o W(":GR#") \o W(":GS#")]

\* the side for hour angle ha (normalized) under the meridian offsets
DestinationSide(ha, offset_east, offset_west) ==
    IF ha < 0
    THEN IF ha < 0 - (120000 + offset_east) THEN "pierWest" ELSE "pierEast"
    ELSE IF ha > offset_west THEN "pierEast" ELSE "pierWest"

\* destination_side_of_pier, as a function of the target and the reply to :GS#
DestinationSideOfPier(ra_hours, lstReply) ==
    LET lst == get_sidereal_time(lstReply)
        ha == NormalizeHourAngle(lst.v - ra_hours)
    IN IF ~lst.ok THEN [side |-> "pierUnknown", ha |-> None]
       ELSE [side |-> DestinationSide(ha, meridian_offset_east, meridian_offset_west),
             ha |-> Some(ha)]

\* faulty variant: an unknown side counts as a different side
WillFlipIfDifferent(current_side, destination_side) == current_side # destination_side

\* "will_flip = (current_side != pierUnknown and destination_side !=
\* pierUnknown and current_side != destination_side)"
WillFlip(current_side, destination_side) ==
    /\ current_side # "pierUnknown"
    /\ destination_side # "pierUnknown"
    /\ current_side # destination_side

PierFrame ==
    UNCHANGED <<linkVars, siteVars, slewVars, now, ticks, obs, chanVars, extVars>>

\* get_side_of_pier()
get_side_of_pier(gm, raReply, lstReply) ==
    LET r == SideOfPier(gm, raReply, lstReply)
    IN
    /\ last' = [Call("get_side_of_pier", r.side, r.sent)
                EXCEPT !.gm = gm, !.rra = get_right_ascension(raReply),
                       !.lst = get_sidereal_time(lstReply), !.ha = r.ha, !.cur = r.side]
    /\ PierFrame

\* destination_side_of_pier(ra_hours, dec_degrees)
destination_side_of_pier(ra_hours, dec_degrees, lstReply) ==
    LET r == DestinationSideOfPier(ra_hours, lstReply)
    IN
    /\ last' = [Call("destination_side_of_pier", r.side,
                     Written(is_connected, connection_type, socket, serial, Cmd(":GS#")))
                EXCEPT !.arg = <<ra_hours, dec_degrees>>,
                       !.lst2 = get_sidereal_time(lstReply), !.ha = r.ha, !.dst = r.side]
    /\ PierFrame

\* should_flip_after_slew(target_ra, target_dec); the sidereal time is read
\* once for each side
should_flip_after_slew(to_ra, to_dec, gm, raReply, lstReply, lstReply2) ==
    LET c == SideOfPier(gm, raReply, lstReply)
        d == DestinationSideOfPier(to_ra, lstReply2)
    IN
    /\ last' = [Call("should_flip_after_slew",
                     IF WillFlip(c.side, d.side) THEN "True" ELSE "False",
                     c.sent \o Written(is_connected, connection_type, socket, serial, Cmd(":GS#")))
                EXCEPT !.arg = <<to_ra, to_dec>>, !.gm = gm,
                       !.rra = get_right_ascension(raReply),
                       !.lst = get_sidereal_time(lstReply),
                       !.lst2 = get_sidereal_time(lstReply2),
                       !.cur = c.side, !.dst = d.side]
    /\ PierFrame

\* _update_meridian_settings(): the replies to :Gh#, :GXE0#, :GXE1#
update_meridian_settings(gh, e0, e1) ==
    LET rh == send_command(is_connected, connection_type, socket, serial, gh)
        up == SendGuard(is_connected) /\ LinkUsable(connection_type, socket, serial)
        r0 == IF up THEN e0 ELSE None
        r1 == IF up THEN e1 ELSE None
        W(c) == Written(is_connected, connection_type, socket, serial, Cmd(c))
    IN
    /\ meridian_offset_east' = IF r0.ok THEN DegreesToHours(r0.v)
                               ELSE IF rh.ok THEN parse_ra_hours(rh.v)
                               ELSE meridian_offset_east
    /\ meridian_offset_west' = IF r1.ok THEN DegreesToHours(r1.v) ELSE meridian_offset_west
    /\ last' = Call("_update_meridian_settings", "None",
                    W(":Gh#") \o W(":GXE0#") \o W(":GXE1#"))
    /\ UNCHANGED <<linkVars, site_latitude, site_longitude, slewVars, now, ticks, obs,
                   chanVars, extVars>>

\* A client that asks about pier sides.
NextPier ==
    \/ \E gh \in {NoReply, [ok |-> TRUE, v |-> DeviceSite.Gh]},
          e0 \in {None, Some(15)}, e1 \in {None, Some(30)} :
          update_meridian_settings(gh, e0, e1)
    \/ \E gm \in GmReplies, ra \in RaReplies, lst \in SiderealReplies :
          get_side_of_pier(gm, ra, lst)
    \/ \E ra \in PierTargets, lst \in SiderealReplies :
          destination_side_of_pier(ra, 20000, lst)
    \/ \E ra \in {0, 10000, 130000}, gm \in GmReplies \ {[ok |-> TRUE, v |-> "e"]},
          r \in {NoReply, [ok |-> TRUE, v |-> <<1, 0, 0>>], [ok |-> TRUE, v |-> <<1, 13, 0>>]},
          lst \in {NoReply, [ok |-> TRUE, v |-> <<1, 1, 0>>]},
          lst2 \in {NoReply, [ok |-> TRUE, v |-> <<1, 1, 0>>]} :
          should_flip_after_slew(ra, 20000, gm, r, lst, lst2)

SpecPier == Init /\ [][NextPier]_vars

----------------------------------------------------------------------------
\* Reachability.  Degrees are in 1e-3 degree: 90 degrees = 90000.

\* declinations a client asks about: +20, -95, +95, +90 degrees
ReachDecs == {20000, -95000, 95000, 90000}

\* replies to :Gt# (site latitude): none, +40 degrees
LatitudeReplies == {NoReply, [ok |-> TRUE, v |-> DeviceSite.Gt]}

\* _update_site_info(): the replies to :Gt# and :Gg#
update_site_info(lat, lon) ==
    LET rlat == send_command(is_connected, connection_type, socket, serial, lat)
        rlon == send_command(is_connected, connection_type, socket, serial, lon)
        W(c) == Written(is_connected, connection_type, socket, serial, Cmd(c))
    IN
    /\ site_latitude' = IF rlat.ok THEN parse_degrees(rlat.v) ELSE site_latitude
    /\ site_longitude' = IF rlon.ok THEN parse_degrees(rlon.v) ELSE site_longitude
    /\ last' = Call("_update_site_info", "None", W(":Gt#") \o W(":Gg#"))
    /\ UNCHANGED <<linkVars, meridian_offset_east, meridian_offset_west, slewVars,
                   now, ticks, obs, chanVars, extVars>>

\* "if dec_degrees < -90 or dec_degrees > 90"
DecOutOfRange(dec_degrees) == dec_degrees < -90000 \/ dec_degrees > 90000

\* "max_ha_east = 12.0 + self.meridian_offset_east; max_ha_west =
\* self.meridian_offset_west; if ha < -max_ha_east or ha > max_ha_west"
BeyondMeridianLimits(ha, offset_east, offset_west) ==
    LET max_ha_east == 120000 + offset_east
        max_ha_west == offset_west
    IN ha < 0 - max_ha_east \/ ha > max_ha_west

\* can_reach_coordinates(ra_hours, dec_degrees).  lstAlt is the reply to the
\* :GS# of _calculate_altitude and below whether its altitude formula gives
\* a negative altitude for the target; lstReply is the reply to the :GS# of
\* the hour-angle check.
can_reach_coordinates(ra_hours, dec_degrees, lstAlt, below, lstReply) ==
    LET W(c) == Written(is_connected, connection_type, socket, serial, Cmd(c))
        altLst == get_sidereal_time(lstAlt)
        \* _calculate_altitude returns 0 when the sidereal time is missing
        low == site_latitude # 0 /\ altLst.ok /\ below
        lst == get_sidereal_time(lstReply)
        ha == NormalizeHourAngle(lst.v - ra_hours)
        Ret(ret, why, sent, l, h) ==
            last' = [Call("can_reach_coordinates", ret, sent)
                     EXCEPT !.arg = <<ra_hours, dec_degrees>>, !.outcome = why,
                            !.lst2 = l, !.ha = h]
        altSent == IF site_latitude # 0 THEN W(":GS#") ELSE <<>>
    IN
    /\ IF DecOutOfRange(dec_degrees)
       THEN Ret("False", "Declination out of range", <<>>, None, None)
       ELSE IF low
       THEN Ret("False", "Target below horizon", altSent, None, None)
       ELSE IF lst.ok /\ BeyondMeridianLimits(ha, meridian_offset_east, meridian_offset_west)
       THEN Ret("False", "Beyond meridian limits", altSent \o W(":GS#"), lst, Some(ha))
       ELSE Ret("True", "", altSent \o W(":GS#"), lst, IF lst.ok THEN Some(ha) ELSE None)
    /\ PierFrame

\* A client that asks whether targets can be reached.
NextReach ==
    \/ \E lat \in LatitudeReplies : update_site_info(lat, NoReply)
    \/ \E e0 \in {None, Some(15)}, e1 \in {None, Some(30)} :
          update_meridian_settings(NoReply, e0, e1)
    \/ \E ra \in PierTargets, dec \in ReachDecs, lstAlt \in {NoReply, [ok |-> TRUE, v |-> <<1, 1, 0>>]},
          below \in BOOLEAN, lst \in SiderealReplies :
          can_reach_coordinates(ra, dec, lstAlt, below, lst)

SpecReach == Init /\ [][NextReach]_vars

----------------------------------------------------------------------------
\* Guide pulses.  pulse_guide_end_time is in milliseconds (time.time() * 1000),
\* pulse_guide_start_time in seconds like the clock.

GuideDirections == {"guideNorth", "guideSouth", "guideEast", "guideWest"}

\* durations a client asks for, in milliseconds
Durations == {500, 1000}

\* replies of the device to a pulse command and to the status query :GU#
PulseReplies == {NoReply, [ok |-> TRUE, v |-> "0"], [ok |-> TRUE, v |-> "1"]}
StatusReplies == {NoReply, [ok |-> TRUE, v |-> "G"], [ok |-> TRUE, v |-> "N"],
                  [ok |-> TRUE, v |-> "0"], [ok |-> TRUE, v |-> "nNp"]}

\* "if response == '0' or response is None"
PulseAccepted(response) == ~response.ok \/ response.v = "0"

\* pulse_guide(direction, duration_ms); reply is the device's reply to :Mg..#
pulse_guide(direction, duration_ms, reply) ==
    LET response == send_command(is_connected, connection_type, socket, serial, reply)
        known == direction \in GuideDirections
        sent == IF known
                THEN Written(is_connected, connection_type, socket, serial,
                             <<":Mg", direction, duration_ms>>)
                ELSE <<>>
        ok == known /\ PulseAccepted(response)
    IN
    /\ IF ok
       THEN /\ pulse_guiding' = TRUE
            /\ pulse_guide_direction' = direction
            /\ pulse_guide_duration' = duration_ms
            /\ pulse_guide_start_time' = now
            /\ pulse_guide_end_time' = now * 1000 + duration_ms
       ELSE UNCHANGED guideVars
    /\ last' = [Call("pulse_guide", IF ok THEN "True" ELSE "False", sent)
                EXCEPT !.arg = <<direction, duration_ms>>, !.reply = reply]
    /\ UNCHANGED <<linkVars, siteVars, slewVars, now, ticks, obs, chanVars, rxVars, poll, appVars>>

\* faulty variant: the wall clock is not consulted
PulseNeverExpired(current_time, end_time) == FALSE

\* "if current_time > self.pulse_guide_end_time", both in milliseconds
PulseExpired(current_time, end_time) == current_time > end_time

\* is_pulse_guiding(); reply is the device's reply to :GU#
is_pulse_guiding(reply) ==
    LET response == send_command(is_connected, connection_type, socket, serial, reply)
        query == Written(is_connected, connection_type, socket, serial, Cmd(":GU#"))
        Ret(ret, sent) == last' = [Call("is_pulse_guiding", ret, sent) EXCEPT !.reply = reply]
        Same == UNCHANGED <<pulse_guide_direction, pulse_guide_duration,
                            pulse_guide_start_time, pulse_guide_end_time>>
    IN
    /\ UNCHANGED <<linkVars, siteVars, slewVars, now, ticks, obs, chanVars, rxVars, poll, appVars>>
    /\ Same
    /\ IF ~pulse_guiding
       THEN Ret("False", <<>>) /\ UNCHANGED pulse_guiding
       ELSE IF PulseExpired(now * 1000, pulse_guide_end_time)
       THEN Ret("False", <<>>) /\ pulse_guiding' = FALSE
       ELSE IF response.ok /\ response.v = "G"
       THEN Ret("True", query) /\ UNCHANGED pulse_guiding
       ELSE IF response.ok /\ response.v \in {"N", "0"}
       THEN Ret("False", query) /\ pulse_guiding' = FALSE
       ELSE Ret("True", query) /\ UNCHANGED pulse_guiding

\* A client that guides and polls.
NextGuide ==
    \/ Tick
    \/ disconnect
    \/ \E d \in {"guideNorth", "guideUp"}, ms \in Durations, r \in PulseReplies :
          pulse_guide(d, ms, r)
    \/ \E r \in StatusReplies : is_pulse_guiding(r)

SpecGuide == Init /\ [][NextGuide]_vars

----------------------------------------------------------------------------
\* Axis movement and the emergency stop.  Rates are in 1e-5 degree per second.

\* TelescopeAxes: axisPrimary = 0, axisSecondary = 1, axisTertiary = 2
Axes == {0, 1, 2}

\* rates a client asks for: 0, +-1 deg/s, +-0.00418 deg/s (sidereal)
Rates == {0, 100000, -100000, 418, -418}

\* f"{abs_rate:.4f}": the rate as the command carries it, in 1e-4 degree per
\* second
FourDecimals(abs_rate) == (abs_rate + 5) \div 10

\* faulty variant: the directions are exchanged
StartCommandSwapped(axis, rate) ==
    IF axis = 0 THEN (IF rate > 0 THEN ":Mw#" ELSE ":Me#")
    ELSE (IF rate > 0 THEN ":Ms#" ELSE ":Mn#")

\* "if rate > 0: send_command(':Me#') else: send_command(':Mw#')" in
\* _move_ra_axis, and ':Mn#' / ':Ms#' in _move_dec_axis
StartCommand(axis, rate) ==
    IF axis = 0 THEN (IF rate > 0 THEN ":Me#" ELSE ":Mw#")
    ELSE (IF rate > 0 THEN ":Mn#" ELSE ":Ms#")

\* the commands of _move_ra_axis(rate) (axis 0) and _move_dec_axis(rate)
\* (axis 1), in the order they are sent
AxisCommands(axis, rate) ==
    IF rate = 0
    THEN (IF axis = 0 THEN <<Cmd(":Qe#"), Cmd(":Qw#")>> ELSE <<Cmd(":Qn#"), Cmd(":Qs#")>>)
    ELSE << <<(IF axis = 0 THEN ":RA" ELSE ":RE"), FourDecimals(Abs(rate))>>,
            Cmd(StartCommand(axis, rate)) >>

\* every command of a list goes through send_command
RECURSIVE WrittenAll(_)
WrittenAll(commands) ==
    IF commands = <<>> THEN <<>>
    ELSE Written(is_connected, connection_type, socket, serial, Head(commands))
         \o WrittenAll(Tail(commands))

\* move_axis(axis, rate); reply is the device's reply to the set-rate
\* command, which the handler reads and only warns about
move_axis(axis, rate, reply) ==
    LET moves == is_connected /\ axis \in {0, 1}
        response == IF moves /\ rate # 0
                    THEN send_command(is_connected, connection_type, socket, serial, reply)
                    ELSE NoReply
    IN
    /\ last' = [Call("move_axis", "None",
                     IF ~moves THEN <<>>
                     ELSE WrittenAll(AxisCommands(axis, rate)))
                EXCEPT !.arg = <<axis, rate>>, !.reply = response]
    /\ UNCHANGED <<linkVars, siteVars, slewVars, now, ticks, obs, chanVars, extVars>>

\* faulty variant: the generic halt alone
HaltOnly == <<Cmd(":Q#")>>

\* the commands of stop_all_movement(), in the order they are sent
StopCommands == <<Cmd(":Q#"), Cmd(":Qe#"), Cmd(":Qw#"), Cmd(":Qn#"), Cmd(":Qs#")>>

\* stop_all_movement(): five send_command calls and nothing else
stop_all_movement ==
    /\ last' = Call("stop_all_movement", "None", WrittenAll(StopCommands))
    /\ UNCHANGED <<linkVars, siteVars, slewVars, now, ticks, obs, chanVars, extVars>>

\* A client that slews, guides, moves the axes and stops everything.
NextStop ==
    \/ Tick
    \/ slew_to_coords(100000, 20000, [ok |-> TRUE, v |-> "0"])
    \/ \E p \in {PosFar, PosA} : is_slewing(p, TRUE, TRUE)
    \/ pulse_guide("guideNorth", 1000, [ok |-> TRUE, v |-> "0"])
    \/ \E r \in StatusReplies : is_pulse_guiding(r)
    \/ move_axis(0, 100000, [ok |-> TRUE, v |-> "1"])
    \/ stop_all_movement

SpecStop == Init /\ [][NextStop]_vars

\* A client that moves the axes, on whatever link the driver has.
NextAxis ==
    \/ \E axis \in Axes, rate \in Rates, reply \in PulseReplies : move_axis(axis, rate, reply)
    \/ stop_all_movement
    \/ disconnect

SpecAxis == Init /\ [][NextAxis]_vars

----------------------------------------------------------------------------
\* Polls of a slew whose target and position lie on both sides of 0 h.

\* targets: 0.1 h, 0.0001 h, 12 h, 23.9 h
FoldTargets == {<<1000, 0>>, <<1, -5000>>, <<120000, 0>>, <<239000, 0>>}

\* positions the mount reports: RA 23.9 h, 23.9999 h, 0 h, 12.0001 h, 0.1 h
FoldPositions ==
    {[ra |-> <<1, 23, 9000>>, dec |-> <<1, 0, 0>>], PosW,
     [ra |-> <<1, 0, 0>>, dec |-> <<1, 0, 0>>],
     [ra |-> <<1, 12, 1>>, dec |-> <<1, 0, 0>>],
     [ra |-> <<1, 0, 1000>>, dec |-> <<1, 0, 0>>]}

NextFold ==
    \/ Tick
    \/ \E t \in FoldTargets : slew_to_coords(t[1], t[2], [ok |-> TRUE, v |-> "0"])
    \/ \E p \in FoldPositions : is_slewing(p, TRUE, TRUE)
    \/ stop_slew

SpecFold == Init /\ [][NextFold]_vars

----------------------------------------------------------------------------
\* The client's target (main.py): TargetRightAscension / TargetDeclination
\* are written by their PUT handlers and read by slewtotarget.

\* PUT targetrightascension: "telescope.target_ra = get_form_value(...)"
put_targetrightascension(ra_hours) ==
    /\ target_ra' = ra_hours
    /\ last' = [Call("put_targetrightascension", "None", <<>>) EXCEPT !.arg = <<ra_hours, 0>>]
    /\ UNCHANGED <<linkVars, siteVars, slewVars, now, ticks, obs, chanVars,
                   guideVars, rxVars, poll, target_dec, txnVars, focVars, gotoVars>>

\* PUT targetdeclination: "telescope.target_dec = get_form_value(...)"
put_targetdeclination(dec_degrees) ==
    /\ target_dec' = dec_degrees
    /\ last' = [Call("put_targetdeclination", "None", <<>>) EXCEPT !.arg = <<0, dec_degrees>>]
    /\ UNCHANGED <<linkVars, siteVars, slewVars, now, ticks, obs, chanVars,
                   guideVars, rxVars, poll, target_ra, txnVars, focVars, gotoVars>>

\* PUT slewtotarget: "telescope.slew_to_coords(telescope.target_ra,
\* telescope.target_dec)"
slewtotarget(reply) == slew_to_coords(target_ra, target_dec, reply)

\* A client that sets its target, slews to it and polls.
NextTarget ==
    \/ Tick
    \/ put_targetrightascension(100000)
    \/ \E dec \in {20000, -5000} : put_targetdeclination(dec)
    \/ \E r \in {NoReply, [ok |-> TRUE, v |-> "0"]} : slewtotarget(r)
    \/ \E p \in {PosFar, PosA} : is_slewing(p, TRUE, TRUE)
    \/ stop_slew

SpecTarget == Init /\ [][NextTarget]_vars

----------------------------------------------------------------------------
\* Sexagesimal text (alpaca_helpers).  A coordinate is a whole number of
\* thousandths of a second: of time for hours (1 h = 3600000), of arc for
\* degrees (1 degree = 3600000).  A text is its sign character, its whole
\* hours or degrees, its minutes, and its seconds field in hundredths.

\* hours in [0, 24): around the minute and hour boundaries
CodecHours ==
    {h * 3600000 + m * 60000 + sec :
        h \in {0, 12, 23}, m \in {0, 30, 59},
        sec \in {0, 4, 5, 6, 45000, 59994, 59995, 59999}}

\* degrees in [-90, 90] and in [0, 360)
CodecDegrees ==
    {sg * (d * 3600000 + m * 60000 + sec) :
        sg \in {1, -1}, d \in {0, 45, 89}, m \in {0, 30, 59},
        sec \in {0, 5, 15000, 59995, 59999}}
    \cup {90 * 3600000, 0 - 90 * 3600000}
    \cup {d * 3600000 + sec : d \in {180, 359}, sec \in {0, 1800004, 3599995, 3599999}}

\* faulty variant: the seconds field without its decimals
SecondsFieldWhole(ms, up) == (ms \div 1000) * 100

\* f"{seconds:05.2f}": the seconds rounded to hundredths; up is the way a
\* value halfway between two hundredths goes.  The field reads 60.00 when
\* the seconds round up to a minute.
SecondsField(ms, up) ==
    IF ms % 10 = 5 THEN (ms \div 10) + (IF up THEN 1 ELSE 0)
    ELSE (ms + 5) \div 10

\* format_ra_hours(ra_hours)
format_ra_hours(ra_hours, up) ==
    LET hours == ra_hours \div 3600000
        minutes == (ra_hours - hours * 3600000) \div 60000
        seconds == ra_hours - hours * 3600000 - minutes * 60000
    IN [sign |-> "", whole |-> hours, minutes |-> minutes, cs |-> SecondsField(seconds, up)]

\* format_dec_degrees(dec_degrees)
format_dec_degrees(dec_degrees, up) ==
    LET sign == IF dec_degrees >= 0 THEN "+" ELSE "-"
        a == Abs(dec_degrees)
        degrees == a \div 3600000
        minutes == (a - degrees * 3600000) \div 60000
        seconds == a - degrees * 3600000 - minutes * 60000
    IN [sign |-> sign, whole |-> degrees, minutes |-> minutes, cs |-> SecondsField(seconds, up)]

\* parse_ra_to_hours(ra_string): "hours + minutes/60.0 + seconds/3600.0"
parse_ra_to_hours(ra_string) ==
    ra_string.whole * 3600000 + ra_string.minutes * 60000 + ra_string.cs * 10

\* parse_dec_to_degrees(dec_string): "sign * (degrees + minutes/60.0 +
\* seconds/3600.0)", the sign taken from the first character
parse_dec_to_degrees(dec_string) ==
    (IF dec_string.sign = "-" THEN -1 ELSE 1)
    * (dec_string.whole * 3600000 + dec_string.minutes * 60000 + dec_string.cs * 10)

CodecFrame ==
    UNCHANGED <<linkVars, siteVars, slewVars, now, ticks, obs, chanVars, extVars>>

\* parse_ra_to_hours(format_ra_hours(ra_hours))
RoundTripHours(ra_hours, up) ==
    /\ last' = [Call("format_ra_hours", "None", <<>>)
                EXCEPT !.arg = <<ra_hours, 0>>, !.text = format_ra_hours(ra_hours, up),
                       !.back = parse_ra_to_hours(format_ra_hours(ra_hours, up))]
    /\ CodecFrame

\* parse_dec_to_degrees(format_dec_degrees(dec_degrees))
RoundTripDegrees(dec_degrees, up) ==
    /\ last' = [Call("format_dec_degrees", "None", <<>>)
                EXCEPT !.arg = <<0, dec_degrees>>, !.text = format_dec_degrees(dec_degrees, up),
                       !.back = parse_dec_to_degrees(format_dec_degrees(dec_degrees, up))]
    /\ CodecFrame

NextCodec ==
    \/ \E h \in CodecHours, up \in BOOLEAN : RoundTripHours(h, up)
    \/ \E d \in CodecDegrees, up \in BOOLEAN : RoundTripDegrees(d, up)

SpecCodec == Init /\ [][NextCodec]_vars

----------------------------------------------------------------------------
\* get_next_transaction_id() (alpaca_helpers), called by the request threads
\* of the HTTP server through alpaca_response().  The function takes no
\* lock: "_server_transaction_id += 1" reads the global, adds one and
\* writes it back, and "return _server_transaction_id" reads it again.

\* the largest ID a finished call has returned, 0 before the first
RECURSIVE LargestReturned(_)
LargestReturned(ids) ==
    IF ids = <<>> THEN 0
    ELSE LET m == LargestReturned(Tail(ids))
         IN IF Head(ids).id > m THEN Head(ids).id ELSE m

TxnFrame ==
    UNCHANGED <<linkVars, siteVars, slewVars, now, ticks, last, obs, chanVars,
                guideVars, rxVars, poll, clientVars, focVars, gotoVars>>

\* thread t calls the function and reads the global
TxnLoad(t) ==
    /\ txn[t].pc = "idle"
    /\ Len(returned) + Cardinality({u \in RequestThreads : txn[u].pc # "idle"}) < MaxIds
    /\ txn' = [txn EXCEPT ![t] = [pc |-> "loaded", tmp |-> _server_transaction_id,
                                  floor |-> LargestReturned(returned)]]
    /\ UNCHANGED <<_server_transaction_id, returned>>
    /\ TxnFrame

\* thread t writes the sum back
TxnStore(t) ==
    /\ txn[t].pc = "loaded"
    /\ _server_transaction_id' = txn[t].tmp + 1
    /\ txn' = [txn EXCEPT ![t].pc = "stored"]
    /\ UNCHANGED returned
    /\ TxnFrame

\* thread t returns what the global holds now
TxnReturn(t) ==
    /\ txn[t].pc = "stored"
    /\ returned' = Append(returned, [t |-> t, id |-> _server_transaction_id,
                                     floor |-> txn[t].floor])
    /\ txn' = [txn EXCEPT ![t] = NotCounting]
    /\ UNCHANGED _server_transaction_id
    /\ TxnFrame

NextTxn ==
    \/ \E t \in RequestThreads : TxnLoad(t)
    \/ \E t \in RequestThreads : TxnStore(t)
    \/ \E t \in RequestThreads : TxnReturn(t)

SpecTxn == Init /\ [][NextTxn]_vars

----------------------------------------------------------------------------
\* slew_to_coords() and sync_to_coords() called by two threads.  Each of
\* the three send_command calls takes the lock for its own exchange and
\* releases it; nothing holds it across the three.

GotoFrame ==
    UNCHANGED <<linkVars, siteVars, now, ticks, last, chanVars, guideVars, rxVars,
                poll, clientVars, txnVars, focVars>>

\* the link takes a command
Goes == SendGuard(is_connected) /\ LinkUsable(connection_type, socket, serial)

\* thread t calls op(ra_hours, dec_degrees) and sends ":Sr..."
GotoSetRa(t, op, ra_hours, dec_degrees) ==
    /\ caller[t].pc = "idle"
    /\ Len(mount.started) + Cardinality({u \in Threads : caller[u].pc # "idle"}) < MaxGotos
    /\ caller' = [caller EXCEPT ![t] = [pc |-> "ra", op |-> op,
                                        ra |-> ra_hours, dec |-> dec_degrees]]
    /\ mount' = IF Goes THEN [mount EXCEPT !.ra = ra_hours] ELSE mount
    /\ UNCHANGED <<slewVars, obs>>
    /\ GotoFrame

\* thread t sends ":Sd..."
GotoSetDec(t) ==
    /\ caller[t].pc = "ra"
    /\ caller' = [caller EXCEPT ![t].pc = "dec"]
    /\ mount' = IF Goes THEN [mount EXCEPT !.dec = caller[t].dec] ELSE mount
    /\ UNCHANGED <<slewVars, obs>>
    /\ GotoFrame

\* thread t sends ":MS#" (slew) or ":CM#" (sync) and returns; the device
\* acts on the registers as they are
GotoStart(t, reply) ==
    LET c == caller[t]
        response == send_command(is_connected, connection_type, socket, serial, reply)
    IN
    /\ c.pc = "dec"
    /\ caller' = [caller EXCEPT ![t] = NotGoing]
    /\ mount' = IF Goes /\ (c.op = "sync_to_coords" \/ SlewAccepted(reply))
                THEN [mount EXCEPT !.started =
                        Append(@, [by |-> t, op |-> c.op,
                                   asked |-> {<<caller[u].ra, caller[u].dec>> :
                                                u \in {v \in Threads : caller[v].pc # "idle"}},
                                   got |-> <<mount.ra, mount.dec>>])]
                ELSE mount
    /\ IF c.op = "sync_to_coords" THEN UNCHANGED <<slewVars, obs>>
       ELSE /\ IF SlewAccepted(response)
               THEN SetSlewTarget(c.ra, c.dec)
               ELSE ClearSlewState
            /\ obs' = NoObs
    /\ GotoFrame

NextGoto ==
    \/ \E t \in Threads, op \in {"slew_to_coords", "sync_to_coords"}, target \in Targets :
          GotoSetRa(t, op, target[1], target[2])
    \/ \E t \in Threads : GotoSetDec(t)
    \/ \E t \in Threads, r \in {NoReply, [ok |-> TRUE, v |-> "0"]} : GotoStart(t, r)

SpecGoto == Init /\ [][NextGoto]_vars

----------------------------------------------------------------------------
\* The focuser (focuser.py), one call at a time: FocuserBase.move_to over
\* MockFocuser, whose _move_without_backlash always arrives.

FocuserFrame ==
    UNCHANGED <<linkVars, siteVars, slewVars, now, ticks, obs, chanVars,
                guideVars, rxVars, poll, clientVars, txnVars, gotoVars>>

\* positions a client asks for
FocuserPositions == {-1, 0, 49900, 50000, 50050, 100000, 100001}

\* MockFocuser.connect(): "self.current_position = self.max_position // 2"
MockConnect ==
    /\ focuser' = [focuser EXCEPT !.is_connected = TRUE,
                                   !.current_position = focuser.max_position \div 2]
    /\ last' = Call("focuser.connect", "True", <<>>)
    /\ UNCHANGED <<eaf, fmove, approaches>>
    /\ FocuserFrame

\* set_backlash_compensation(steps)
set_backlash_compensation(steps) ==
    /\ focuser' = [focuser EXCEPT !.backlash_steps = Abs(steps),
                                   !.backlash_enabled = steps > 0]
    /\ last' = [Call("set_backlash_compensation", "None", <<>>) EXCEPT !.arg = <<steps, 0>>]
    /\ UNCHANGED <<eaf, fmove, approaches>>
    /\ FocuserFrame

Min(a, b) == IF a < b THEN a ELSE b
Max(a, b) == IF a > b THEN a ELSE b

\* "if self.backlash_enabled and self.backlash_steps > 0: if
\* self.last_direction is not None and self.last_direction != direction"
Compensates(f, direction) ==
    /\ f.backlash_enabled /\ f.backlash_steps > 0
    /\ f.last_direction # "None" /\ f.last_direction # direction

\* "overshoot_pos = max(0, position - self.backlash_steps)" for a move
\* outwards, "min(self.max_position, position + self.backlash_steps)" for a
\* move inwards
Overshoot(f, position, direction) ==
    IF direction = "out" THEN Max(0, position - f.backlash_steps)
    ELSE Min(f.max_position, position + f.backlash_steps)

\* the positions _move_without_backlash is called with, in order
MoveTargets(f, position, direction) ==
    IF Compensates(f, direction)
    THEN <<Overshoot(f, position, direction), position>>
    ELSE <<position>>

\* the direction of the last segment that moves, starting from current:
\* "out" towards larger positions, "in" towards smaller ones
RECURSIVE LastMotion(_, _, _)
LastMotion(current, targets, sofar) ==
    IF targets = <<>> THEN sofar
    ELSE LastMotion(Head(targets), Tail(targets),
                    IF Head(targets) > current THEN "out"
                    ELSE IF Head(targets) < current THEN "in" ELSE sofar)

\* move_to(position) on a MockFocuser
move_to(position) ==
    LET f == focuser
        current == f.current_position
        direction == IF position > current THEN "out" ELSE "in"
        valid == f.is_connected /\ position >= 0 /\ position <= f.max_position
        moves == valid /\ position # current
        targets == MoveTargets(f, position, direction)
        Ret(ret) == last' = [Call("move_to", ret, <<>>) EXCEPT !.arg = <<position, current>>]
    IN
    /\ IF ~valid THEN Ret("False") /\ UNCHANGED <<focuser, approaches>>
       ELSE IF ~moves THEN Ret("True") /\ UNCHANGED <<focuser, approaches>>
       ELSE /\ focuser' = [f EXCEPT !.current_position = position,
                                    !.target_position = position,
                                    !.moving = FALSE,
                                    !.last_direction = direction]
            /\ approaches' = IF f.backlash_enabled /\ f.backlash_steps > 0
                             THEN approaches \cup {LastMotion(current, targets, "none")}
                             ELSE approaches
            /\ Ret("True")
    /\ UNCHANGED <<eaf, fmove>>
    /\ FocuserFrame

NextFocuser ==
    \/ MockConnect
    \/ \E steps \in {0, 100, -100} : set_backlash_compensation(steps)
    \/ \E position \in FocuserPositions : move_to(position)

SpecFocuser == Init /\ [][NextFocuser]_vars

----------------------------------------------------------------------------
\* ZWOFocuser, its calls made by the request threads.  focuser.lock is the
\* threading.Lock of FocuserBase: "free", or the thread inside "with
\* self.lock"; a thread that asks for it while it is held waits.  eaf is the
\* device: its position and whether its motor runs.

\* positions a client sends the ZWO focuser to
ZwoPositions == {0, 49900, 100000}

ZwoFrame ==
    /\ UNCHANGED <<last, approaches>>
    /\ FocuserFrame

\* ZWOFocuser.connect(): opens the device and reads its position
ZwoConnect ==
    /\ ~focuser.is_connected
    /\ focuser' = [focuser EXCEPT !.is_connected = TRUE,
                                   !.current_position = eaf.position]
    /\ UNCHANGED <<eaf, fmove>>
    /\ ZwoFrame

\* _move_without_backlash(position) up to the wait loop: takes the lock,
\* calls EAFMove; accepted is whether the device returns EAF_SUCCESS
ZwoMoveBegin(t, position, accepted) ==
    /\ fmove[t].pc = "idle"
    /\ IF ~focuser.is_connected
       THEN /\ fmove' = [fmove EXCEPT ![t] = [pc |-> "idle", ret |-> "False"]]
            /\ UNCHANGED <<focuser, eaf>>
       ELSE /\ focuser.lock = "free"
            /\ IF accepted
               THEN /\ focuser' = [focuser EXCEPT !.lock = t, !.moving = TRUE,
                                                  !.target_position = position]
                    /\ eaf' = [eaf EXCEPT !.moving = TRUE]
                    /\ fmove' = [fmove EXCEPT ![t] = [pc |-> "wait", ret |-> "None"]]
               ELSE /\ focuser' = [focuser EXCEPT !.moving = FALSE,
                                                  !.target_position = position]
                    /\ fmove' = [fmove EXCEPT ![t] = [pc |-> "idle", ret |-> "False"]]
                    /\ UNCHANGED eaf
    /\ ZwoFrame

\* the motor arrives at the position it was sent to
EafArrives ==
    /\ eaf.moving
    /\ eaf' = [position |-> focuser.target_position, moving |-> FALSE]
    /\ UNCHANGED <<focuser, fmove>>
    /\ ZwoFrame

\* one pass of the wait loop that leaves it: EAFIsMoving fails (readable
\* FALSE), or reports that the motor is no longer moving
ZwoMovePoll(t, readable) ==
    /\ fmove[t].pc = "wait"
    /\ IF ~readable
       THEN /\ focuser' = [focuser EXCEPT !.moving = FALSE, !.lock = "free"]
            /\ fmove' = [fmove EXCEPT ![t] = [pc |-> "idle", ret |-> "False"]]
       ELSE /\ ~eaf.moving
            /\ fmove' = [fmove EXCEPT ![t] = [pc |-> "final", ret |-> "None"]]
            /\ UNCHANGED focuser
    /\ UNCHANGED eaf
    /\ ZwoFrame

\* get_position(): takes the lock, reads the device, releases the lock.
\* Called by a client (pc "idle"), and by _move_without_backlash after its
\* wait loop (pc "final"), which then sets moving = False, returns True and
\* leaves its own "with self.lock".
ZwoGetPosition(t) ==
    /\ fmove[t].pc \in {"idle", "final"}
    /\ IF ~focuser.is_connected
       THEN /\ fmove[t].pc = "idle"
            /\ fmove' = [fmove EXCEPT ![t] = [pc |-> "idle", ret |-> "-1"]]
            /\ UNCHANGED focuser
       ELSE /\ focuser.lock = "free"
            /\ IF fmove[t].pc = "final"
               THEN /\ focuser' = [focuser EXCEPT !.current_position = eaf.position,
                                                  !.moving = FALSE]
                    /\ fmove' = [fmove EXCEPT ![t] = [pc |-> "idle", ret |-> "True"]]
               ELSE /\ focuser' = [focuser EXCEPT !.current_position = eaf.position]
                    /\ fmove' = [fmove EXCEPT ![t] = [pc |-> "idle", ret |-> "position"]]
    /\ UNCHANGED eaf
    /\ ZwoFrame

\* halt(): EAFStop, "self.moving = False"; the lock is not taken
ZwoHalt ==
    /\ focuser.is_connected
    /\ eaf' = [eaf EXCEPT !.moving = FALSE]
    /\ focuser' = [focuser EXCEPT !.moving = FALSE]
    /\ UNCHANGED fmove
    /\ ZwoFrame

NextZwo ==
    \/ ZwoConnect
    \/ \E t \in RequestThreads, position \in ZwoPositions, accepted \in BOOLEAN :
          ZwoMoveBegin(t, position, accepted)
    \/ EafArrives
    \/ \E t \in RequestThreads, readable \in BOOLEAN : ZwoMovePoll(t, readable)
    \/ \E t \in RequestThreads : ZwoGetPosition(t)
    \/ ZwoHalt

SpecZwo == Init /\ [][NextZwo]_vars

----------------------------------------------------------------------------
\* A mount that has settled at a target next to 0 h and reports readings on
\* both sides of it.

\* the mount at 0.0000 h, -5.000 deg: 0.09 arcmin east of PosW
PosZ == [ra |-> <<1, 0, 0>>, dec |-> <<-1, 5, 0>>]

NextSettle ==
    \/ Tick
    \/ slew_to_coords(1, -5000, [ok |-> TRUE, v |-> "0"])
    \/ \E p \in {PosW, PosZ, PosFar} : is_slewing(p, TRUE, TRUE)

SpecSettle == Init /\ [][NextSettle]_vars

----------------------------------------------------------------------------
\* A client that drops the link while a slew or a guide pulse is tracked and
\* connects again.

NextRelink ==
    \/ Tick
    \/ connect("ok", [ok |-> TRUE, v |-> "On-Step"], TRUE)
    \/ disconnect
    \/ slew_to_coords(100000, 20000, [ok |-> TRUE, v |-> "0"])
    \/ is_slewing(PosFar, TRUE, TRUE)
    \/ pulse_guide("guideNorth", 1000, [ok |-> TRUE, v |-> "0"])
    \/ \E r \in {NoReply, [ok |-> TRUE, v |-> "N"]} : is_pulse_guiding(r)

SpecRelink == Init /\ [][NextRelink]_vars

----------------------------------------------------------------------------
\* The driver, one call at a time.

Next ==
    \/ Tick
    \/ \E o \in OpenOutcomes, probe \in {NoReply, [ok |-> TRUE, v |-> "On-Step"]},
          answers \in BOOLEAN : connect(o, probe, answers)
    \/ disconnect
    \/ \E t \in Targets, r \in StartReplies : slew_to_coords(t[1], t[2], r)
    \/ \E r \in StartReplies : slew_to_altaz(180000, 45000, r)
    \/ stop_slew
    \/ \E f \in Feeds : is_slewing(f.p, f.raOK, f.decOK)

Spec == Init /\ [][Next]_vars

\* The slew monitor: the calls of a client that slews and polls.
NextSlew ==
    \/ Tick
    \/ disconnect
    \/ \E t \in Targets, r \in StartReplies : slew_to_coords(t[1], t[2], r)
    \/ \E r \in StartReplies : slew_to_altaz(180000, 45000, r)
    \/ stop_slew
    \/ \E f \in Feeds : is_slewing(f.p, f.raOK, f.decOK)

SpecSlew == Init /\ [][NextSlew]_vars

\* Connecting and disconnecting, with a command in between.
NextLink ==
    \/ Tick
    \/ \E o \in OpenOutcomes, probe \in {NoReply, [ok |-> TRUE, v |-> "On-Step"]},
          answers \in BOOLEAN : connect(o, probe, answers)
    \/ disconnect
    \/ stop_slew

SpecLink == Init /\ [][NextLink]_vars

----------------------------------------------------------------------------
\* send_command under concurrent callers.  A caller is idle, waiting for the
\* lock ("locking"), writing its command byte by byte ("writing"), or reading
\* the reply ("reading").  The exchange is in flight from the first byte
\* written until the read ends.

\* faulty variant: send_command without the lock
LockIgnored == TRUE

\* "with self.lock:" can be entered
LockFree == lock = "free"

\* send_command(command) is called by thread t
ChanCall(t, command) ==
    /\ pc[t] = "idle"
    /\ calls < MaxCalls
    /\ calls' = calls + 1
    /\ IF ~SendGuard(is_connected)
       THEN UNCHANGED <<pc, sending>>
       ELSE /\ pc' = [pc EXCEPT ![t] = "locking"]
            /\ sending' = [sending EXCEPT ![t] = [k |-> calls + 1, bytes |-> command, i |-> 1]]
    /\ UNCHANGED <<linkVars, siteVars, slewVars, now, ticks, last, obs, extVars, lock, wire>>

\* t enters "with self.lock:"; _send_network / _send_serial return None at
\* once when there is no transport to write to
ChanAcquire(t) ==
    /\ pc[t] = "locking"
    /\ LockFree
    /\ IF LinkUsable(connection_type, socket, serial)
       THEN /\ lock' = t
            /\ pc' = [pc EXCEPT ![t] = "writing"]
            /\ UNCHANGED sending
       ELSE /\ lock' = lock
            /\ pc' = [pc EXCEPT ![t] = "idle"]
            /\ sending' = [sending EXCEPT ![t] = NotSending]
    /\ UNCHANGED <<linkVars, siteVars, slewVars, now, ticks, last, obs, extVars, wire, calls>>

\* socket.sendall / serial.write puts the next byte of t's command on the
\* link; on a transport closed meanwhile it raises, and the call ends
ChanWrite(t) ==
    /\ pc[t] = "writing"
    /\ IF LinkUsable(connection_type, socket, serial)
       THEN /\ wire' = Append(wire, [t |-> t, k |-> sending[t].k,
                                     b |-> sending[t].bytes[sending[t].i]])
            /\ IF sending[t].i = Len(sending[t].bytes)
               THEN pc' = [pc EXCEPT ![t] = "reading"] /\ UNCHANGED sending
               ELSE UNCHANGED pc /\
                    sending' = [sending EXCEPT ![t].i = sending[t].i + 1]
            /\ UNCHANGED lock
       ELSE /\ lock' = "free"
            /\ pc' = [pc EXCEPT ![t] = "idle"]
            /\ sending' = [sending EXCEPT ![t] = NotSending]
            /\ UNCHANGED wire
    /\ UNCHANGED <<linkVars, siteVars, slewVars, now, ticks, last, obs, extVars, calls>>

\* the read loop of t ends: the terminator arrived, the deadline passed, the
\* peer closed or the transport raised; the lock is released on return
ChanRead(t) ==
    /\ pc[t] = "reading"
    /\ lock' = "free"
    /\ pc' = [pc EXCEPT ![t] = "idle"]
    /\ sending' = [sending EXCEPT ![t] = NotSending]
    /\ UNCHANGED <<linkVars, siteVars, slewVars, now, ticks, last, obs, extVars, wire, calls>>

NextChan ==
    \/ \E t \in Threads, c \in Commands : ChanCall(t, c)
    \/ \E t \in Threads : ChanAcquire(t)
    \/ \E t \in Threads : ChanWrite(t)
    \/ \E t \in Threads : ChanRead(t)
    \/ disconnect

SpecChan == Init /\ [][NextChan]_vars

----------------------------------------------------------------------------
\* send_command on the wire: what one exchange reads.  A reply is a record
\* [k, text, term]: the exchange whose command it answers, its bytes before
\* the terminator, and whether the terminator '#' follows them.

\* What the device does with a command: replies in time, replies with an
\* empty payload ("#"), replies with bytes the caller cannot parse, sends the
\* start of a reply and then nothing, stays silent, replies after the
\* deadline of the exchange, closes the connection, or the transport raises
\* on the write.
Hows == {"reply", "empty", "garbled", "partial", "silent", "late", "closed", "raise"}

\* the bytes the device sends for exchange k
DeviceReply(k, how) ==
    CASE how = "reply" -> <<[k |-> k, text |-> "reply", term |-> TRUE]>>
      [] how = "late" -> <<[k |-> k, text |-> "reply", term |-> TRUE]>>
      [] how = "empty" -> <<[k |-> k, text |-> "", term |-> TRUE]>>
      [] how = "garbled" -> <<[k |-> k, text |-> "?", term |-> TRUE]>>
      [] how = "partial" -> <<[k |-> k, text |-> "rep", term |-> FALSE]>>
      [] OTHER -> <<>>

\* The read loop: "response += chunk" until "b'#' in response", the deadline
\* (2 s), or a closed peer (_send_network); "response += byte" until
\* "byte == b'#'" or the deadline (_send_serial).  It takes what arrives, in
\* order, up to and including the first terminator.
RECURSIVE UpToTerminator(_)
UpToTerminator(arriving) ==
    IF arriving = <<>> THEN <<>>
    ELSE IF Head(arriving).term THEN <<Head(arriving)>>
    ELSE <<Head(arriving)>> \o UpToTerminator(Tail(arriving))

HasText(r) == r.text # ""

\* "if response: ... return response_str if response_str else None": the
\* bytes read, without terminator, or None when there are none
ResponseOf(taken) ==
    LET bytes == SelectSeq(taken, HasText)
    IN IF bytes = <<>> THEN NoResponse
       ELSE [ok |-> TRUE, v |-> [i \in DOMAIN bytes |-> <<bytes[i].k, bytes[i].text>>]]

\* _send_serial: "self.serial.reset_input_buffer()" before the write;
\* _send_network reads whatever the socket holds
BufferAtWrite(ctype, buffered) == IF ctype = "serial" THEN <<>> ELSE buffered

\* faulty variant: a failed exchange tears the link down
DropLinkOnError ==
    /\ socket' = "none" /\ serial' = "none" /\ is_connected' = FALSE
    /\ UNCHANGED <<connection_type, host, is_connecting>>

\* what a failed exchange does to the link: "except Exception as e: print(...);
\* return None", and "return None" after the read loop
KeepLinkOnError == UNCHANGED linkVars

\* faulty variant: an exchange without a response is tried once more
WritesOfRetrying(command, written, response) ==
    IF ~written THEN <<>>
    ELSE IF response.ok THEN <<command>> ELSE <<command, command>>

\* The writes one send_command makes on the link: one "sendall(...)" /
\* "serial.write(...)", outside the read loop, and "return None" on every
\* failure path.
WritesOf(command, written, response) ==
    IF written THEN <<command>> ELSE <<>>

\* send_command(command): how is what the device does with it, arrives
\* whether the replies still on their way come in during this exchange
Exchange(command, how, arrives) ==
    LET k == calls + 1
        goes == SendGuard(is_connected) /\ LinkUsable(connection_type, socket, serial)
        written == goes /\ how # "raise"
        before == BufferAtWrite(connection_type, rxbuf)
        own == IF how \in {"reply", "empty", "garbled", "partial"}
               THEN DeviceReply(k, how) ELSE <<>>
        arriving == before \o (IF arrives THEN online ELSE <<>>) \o own
        taken == UpToTerminator(arriving)
        response == IF written THEN ResponseOf(taken) ELSE NoResponse
        failed == ~response.ok \/ how = "garbled"
    IN
    /\ calls < MaxCalls
    /\ calls' = k
    /\ IF ~goes THEN UNCHANGED rxVars
       ELSE IF ~written THEN rxbuf' = before /\ UNCHANGED online
       ELSE /\ rxbuf' = SubSeq(arriving, Len(taken) + 1, Len(arriving))
            /\ online' = (IF arrives THEN <<>> ELSE online)
                          \o (IF how = "late" THEN DeviceReply(k, how) ELSE <<>>)
    /\ IF goes /\ failed THEN KeepLinkOnError ELSE UNCHANGED linkVars
    /\ last' = [Call("send_command", "None", WritesOf(command, written, response))
                EXCEPT !.k = k, !.how = how, !.resp = response,
                       !.term = written /\ taken # <<>> /\ taken[Len(taken)].term]
    /\ UNCHANGED <<siteVars, slewVars, now, ticks, obs, lock, pc, sending, wire,
                   guideVars, poll, appVars>>

\* a reply that was on its way reaches the transport's receive buffer
Arrive ==
    /\ online # <<>>
    /\ rxbuf' = Append(rxbuf, Head(online))
    /\ online' = Tail(online)
    /\ UNCHANGED <<linkVars, siteVars, slewVars, now, ticks, last, obs, chanVars,
                   guideVars, poll, appVars>>

NextWire ==
    \/ \E c \in {Cmd(":GR#"), Cmd(":MS#")}, how \in Hows, arrives \in BOOLEAN :
          Exchange(c, how, arrives)
    \/ Arrive

SpecWire == Init /\ [][NextWire]_vars

----------------------------------------------------------------------------
\* Properties.

SessionCleared ==
    /\ ~_slew_target.ok /\ ~_slewing /\ ~_slew_start_time.ok
    /\ ~_position_stable_since.ok /\ ~_last_position.ok

\* the last call was a poll of an active session on a connected link, before
\* the hard timeout (120 s)
PolledInSession(l) ==
    /\ l.op = "is_slewing" /\ l.conn /\ l.active
    /\ ~(l.elapsed.ok /\ l.elapsed.v > 120)

InFlight(t) == pc[t] \in {"writing", "reading"}

\* C1: at most one command/response exchange is in flight on the link at any
\* time, and the bytes of two commands never interleave on the link: between
\* two bytes of one command there is no byte of another.
C1_OneExchangeAtATime ==
    /\ \A t1, t2 \in Threads : InFlight(t1) /\ InFlight(t2) => t1 = t2
    /\ \A i, j, m \in DOMAIN wire :
          i < j /\ j < m /\ wire[i].k = wire[m].k => wire[j].k = wire[i].k

\* two callers at once: one waits for the lock while the other is writing,
\* and the link already carries a command of the waiting one
C1_Witness ==
    \E t1, t2 \in Threads :
        /\ t1 # t2 /\ pc[t1] = "locking" /\ pc[t2] = "writing"
        /\ sending[t2].i > 1
        /\ \E i \in DOMAIN wire : wire[i].t = t1

\* C2: for a session whose feed is away from the target, then near it and
\* held, a poll that reads the position returns False exactly when the
\* position has been seen near the target and steady for 2 s, and True
\* otherwise; the poll that returns False clears the session.
C2_SettlesAfterStabilityDuration ==
    PolledInSession(last) /\ last.ra.ok /\ last.dec.ok /\ obs.steady =>
        LET settled == obs.quietSince.ok /\ last.at - obs.quietSince.v >= 2
        IN /\ last.ret = "False" <=> settled
           /\ last.ret = "True" <=> ~settled
           /\ last.ret = "False" => SessionCleared

\* the feed was away, came near and held; the poll 2 s after arrival says False
C2_Witness ==
    /\ PolledInSession(last) /\ last.ra.ok /\ last.dec.ok /\ obs.steady
    /\ obs.everFar /\ obs.everClose
    /\ last.ret = "False" /\ SessionCleared

\* C3: a poll declares the slew complete only if the polls of the 2 s before
\* it all saw the mount within the closeness threshold and not displaced by
\* more than the jitter threshold.
C3_CompleteOnlyAfterQuietWindow ==
    PolledInSession(last) /\ last.ret = "False" =>
        obs.quietSince.ok /\ last.at - obs.quietSince.v >= 2

\* C4: for a session whose feed never comes near the target, a poll returns
\* True exactly while the time since slew start does not exceed 120 s; the
\* poll after that returns False and clears the session.
C4_TimesOutAfterHardTimeout ==
    /\ last.op = "is_slewing" /\ last.conn /\ last.active /\ last.elapsed.ok
    /\ ~obs.everClose
    => /\ last.ret = "True" <=> last.elapsed.v <= 120
       /\ last.ret = "False" <=> last.elapsed.v > 120
       /\ last.ret = "False" => SessionCleared

\* the feed was polled away from the target, and the poll after 120 s says
\* False
C4_Witness ==
    /\ last.op = "is_slewing" /\ last.conn /\ last.active /\ last.elapsed.ok
    /\ obs.everFar /\ ~obs.everClose
    /\ last.elapsed.v > 120 /\ last.ret = "False" /\ SessionCleared

\* C5: a poll of an active session, before the hard timeout, that cannot read
\* RA or Dec returns True and leaves the session unchanged.
C5_UnreadableMeansStillSlewing ==
    [][ (PolledInSession(last') /\ (~last'.ra.ok \/ ~last'.dec.ok))
        => (last'.ret = "True" /\ UNCHANGED slewVars) ]_vars

\* RA was read, Dec was not, while the stabilization timer was running
C5_Witness ==
    /\ PolledInSession(last) /\ last.ra.ok /\ ~last.dec.ok
    /\ last.ret = "True" /\ _slew_target.ok /\ _position_stable_since.ok

\* C6: slew_to_coords(ra, dec) returns True exactly when :MS# reached the
\* device and the device replied "0"; then the session holds target (ra, dec)
\* and the time of the call as slew start; otherwise no session for (ra, dec)
\* is recorded.
C6_SessionIffAccepted ==
    last.op = "slew_to_coords" =>
        LET acked == /\ \E i \in DOMAIN last.sent : last.sent[i] = <<":MS#", 0>>
                     /\ last.reply.ok /\ last.reply.v = "0"
        IN /\ last.ret = "True" <=> acked
           /\ last.ret = "False" <=> ~acked
           /\ last.ret = "True" =>
                /\ _slew_target = [ok |-> TRUE, v |-> last.arg]
                /\ _slew_start_time = [ok |-> TRUE, v |-> last.at]
                /\ _slewing
           /\ last.ret = "False" => ~_slew_target.ok

C6_Witness ==
    /\ last.op = "slew_to_coords" /\ last.ret = "True"
    /\ last.reply.ok /\ last.reply.v = "0"
    /\ _slew_target.ok /\ _slew_target.v = last.arg

\* C7: after slew_to_altaz() returned True, the next poll (link connected,
\* hard timeout not elapsed) returns True.
C7_AltAzSlewIsTracked ==
    [][ (last.op = "slew_to_altaz" /\ last.ret = "True"
         /\ last'.op = "is_slewing" /\ last'.conn
         /\ ~(last'.elapsed.ok /\ last'.elapsed.v > 120))
        => last'.ret = "True" ]_vars

\* C8: stop_slew() writes :Q# to a connected link and leaves no session; the
\* poll after it returns False and writes nothing to the link.
C8_StopClearsAtOnce ==
    /\ [](last.op = "stop_slew" =>
            /\ SessionCleared
            /\ last.conn => last.sent = << <<":Q#", 0>> >>)
    /\ [][ (last.op = "stop_slew" /\ last'.op = "is_slewing")
           => (last'.ret = "False" /\ last'.sent = <<>>) ]_vars

\* stop_slew was called on a connected link during a session
C8_Witness ==
    /\ last.op = "stop_slew" /\ last.conn /\ last.active
    /\ last.sent = << <<":Q#", 0>> >> /\ SessionCleared

\* C9: from a disconnected driver, when the transport opens and the device
\* answers :GVP#, connect() returns True and is_connected is true.
C9_ConnectSucceeds ==
    /\ last.op = "connect" /\ ~last.conn
    /\ connection_type \in {"network", "serial"}
    /\ connection_type = "network" => host # ""
    /\ last.outcome = "ok" /\ last.reply.ok
    => last.ret = "True" /\ is_connected

\* C10: whenever connect() returns False, is_connected and is_connecting are
\* false on return.
C10_FailedConnectLeavesDisconnected ==
    last.op = "connect" /\ last.ret = "False" => ~is_connected /\ ~is_connecting

\* connect() failed on a driver that was connected before the call
C10_Witness ==
    /\ last.op = "connect" /\ last.ret = "False" /\ last.conn
    /\ ~is_connected /\ ~is_connecting

\* C11: send_command returns a response only when the terminator '#' was
\* received within the deadline; without it the call returns None, even when
\* unterminated bytes were received.
C11_ResponseOnlyWithTerminator ==
    last.op = "send_command" /\ last.resp.ok => last.term

\* C12: the response returned by an exchange is made of the device's reply to
\* the command of that exchange, never of the reply to an earlier command.
C12_ResponseAnswersOwnCommand ==
    last.op = "send_command" /\ last.resp.ok =>
        \A i \in DOMAIN last.resp.v : last.resp.v[i][1] = last.k

\* C15: an exchange on a connected link that fails (no response, or a reply
\* that cannot be parsed) returns to its caller and leaves is_connected and
\* the transport handles as they were.
C15_FailedExchangeKeepsLink ==
    [][ (last'.op = "send_command" /\ last'.k # last.k /\ last'.conn
         /\ (~last'.resp.ok \/ last'.how = "garbled"))
        => UNCHANGED linkVars ]_vars

\* an exchange on a connected link got no response (silence, a late reply, a
\* closed peer or a failed write), and the link is still up
C15_Witness ==
    /\ last.op = "send_command" /\ last.conn /\ last.sent # <<>>
    /\ last.how \in {"silent", "closed", "raise", "late"} /\ ~last.resp.ok
    /\ is_connected /\ LinkUsable(connection_type, socket, serial)

\* C13: while a command exchange of some thread is in flight, no step closes,
\* replaces or removes the transport it runs on.
C13_TransportKeptDuringExchange ==
    [][ (\E t \in Threads : InFlight(t)) => (socket' = socket /\ serial' = serial) ]_vars

\* C16: an is_pulse_guiding() call made after the recorded end time of the
\* pulse (start + duration) returns False and writes nothing to the link, for
\* as long as no new pulse is recorded.
C16_ExpiredPulseReportsFalse ==
    last.op = "is_pulse_guiding" /\ last.at * 1000 > pulse_guide_end_time
    => last.ret = "False" /\ last.sent = <<>>

\* a pulse was recorded and still marked active when a poll on a connected
\* link came after its end time
C16_Witness ==
    /\ last.op = "is_pulse_guiding" /\ last.pulse /\ last.conn
    /\ pulse_guide_duration = 500
    /\ last.at * 1000 > pulse_guide_end_time
    /\ last.ret = "False" /\ last.sent = <<>> /\ ~pulse_guiding

\* C14: every is_slewing() poll, whatever other calls run while it is in
\* progress, ends by returning True or False.
C14_PollReturnsBoolean ==
    poll.ret \in {"None", "True", "False"}

\* LST - RA brought into [-12 h, +12 h] by whole turns
HourAngleOf(lst, ra) ==
    LET d == lst - ra
    IN IF d > 120000 THEN d - 240000 ELSE IF d < -120000 THEN d + 240000 ELSE d

\* the call heard the device's reply to :Gm#
HeardGm(l) == l.conn /\ l.gm.ok

\* C17: get_side_of_pier() returns East when :Gm# answers E and West when it
\* answers W; when the answer is missing or is neither, it returns East if the
\* hour angle (LST - RA, within a half turn of the meridian) is negative and
\* West otherwise, and Unknown when RA or LST could not be read.
C17_PierSideFromDeviceOrHourAngle ==
    last.op = "get_side_of_pier" =>
        /\ HeardGm(last) /\ last.gm.v = "E" => last.ret = "pierEast"
        /\ HeardGm(last) /\ last.gm.v = "W" => last.ret = "pierWest"
        /\ ~HeardGm(last) \/ last.gm.v = "N" =>
              IF last.rra.ok /\ last.lst.ok
              THEN last.ret = IF HourAngleOf(last.lst.v, last.rra.v) < 0
                              THEN "pierEast" ELSE "pierWest"
              ELSE last.ret = "pierUnknown"

\* the device gave no usable side, LST = 1 h and RA = 23 h: the hour angle is
\* +2 h and the side West
C17_Witness ==
    /\ last.op = "get_side_of_pier" /\ HeardGm(last) /\ last.gm.v = "N"
    /\ last.rra = Some(230000) /\ last.lst = Some(10000)
    /\ last.ret = "pierWest"

\* C18: the hour angle a pier-side decision uses lies in (-12 h, +12 h]; a
\* difference LST - RA of exactly -12 h counts as +12 h and gives West.
C18_HourAngleHalfOpen ==
    /\ last.op \in {"get_side_of_pier", "destination_side_of_pier"} /\ last.ha.ok
       => last.ha.v > -120000 /\ last.ha.v <= 120000
    /\ last.op = "get_side_of_pier" /\ last.ha.ok /\ last.lst.v - last.rra.v = -120000
       => last.ret = "pierWest"

\* C19: at a fixed sidereal time and fixed offsets, when two targets next to
\* each other in hour angle get different destination sides, the hour angle
\* between them is one of the configured meridian offsets, east or west of
\* the meridian.
C19_FlipsOnlyAtMeridianOffsets ==
    [][ (/\ last.op = "destination_side_of_pier" /\ last.ha.ok
         /\ last'.op = "destination_side_of_pier" /\ last'.ha.ok
         /\ last'.lst2 = last.lst2
         /\ UNCHANGED <<meridian_offset_east, meridian_offset_west>>
         /\ last'.ha.v = last.ha.v + 1
         /\ last'.ret # last.ret)
        => \E h \in {last.ha.v, last'.ha.v} :
              h \in {meridian_offset_east, 0 - meridian_offset_east,
                     meridian_offset_west, 0 - meridian_offset_west} ]_vars

\* C20: should_flip_after_slew() reports a flip exactly when the two sides it
\* returns are both known and differ; the sides returned are the current side
\* (the device's, when it gave one) and the destination side (Unknown exactly
\* when the sidereal time could not be read).
C20_FlipIffKnownAndDifferent ==
    last.op = "should_flip_after_slew" =>
        /\ last.cur \in {"pierEast", "pierWest", "pierUnknown"}
        /\ last.dst \in {"pierEast", "pierWest", "pierUnknown"}
        /\ last.ret = "True" <=> /\ last.cur # "pierUnknown"
                                 /\ last.dst # "pierUnknown"
                                 /\ last.cur # last.dst
        /\ last.ret = "False" <=> \/ last.cur = "pierUnknown"
                                  \/ last.dst = "pierUnknown"
                                  \/ last.cur = last.dst
        /\ HeardGm(last) /\ last.gm.v = "E" => last.cur = "pierEast"
        /\ HeardGm(last) /\ last.gm.v = "W" => last.cur = "pierWest"
        /\ last.dst = "pierUnknown" <=> ~last.lst2.ok

\* the mount is on the east side and the target on the meridian: a flip
C20_Witness ==
    /\ last.op = "should_flip_after_slew" /\ last.ret = "True"
    /\ last.cur = "pierEast" /\ last.dst = "pierWest"

\* C21: can_reach_coordinates() rejects a target whose declination is outside
\* [-90, 90] degrees, and, when it read the sidereal time, a target whose hour
\* angle is further east of the meridian than meridian_offset_east or further
\* west of it than meridian_offset_west.
C21_RejectsBeyondEitherLimit ==
    last.op = "can_reach_coordinates" =>
        /\ (last.arg[2] < -90000 \/ last.arg[2] > 90000) => last.ret = "False"
        /\ last.ha.ok /\ last.ha.v > meridian_offset_west => last.ret = "False"
        /\ last.ha.ok /\ last.ha.v < 0 - meridian_offset_east => last.ret = "False"

\* C27: the driver holds at most one open transport, and after a failed
\* connect() or a disconnect() it holds none.
C27_AtMostOneOpenTransport ==
    /\ OpenTransports(socket, serial) <= 1
    /\ (last.op = "disconnect" \/ (last.op = "connect" /\ last.ret = "False"))
           => OpenTransports(socket, serial) = 0

\* C26: one send_command call writes its command to the link at most once,
\* whether the device replies, stays silent until the deadline, closes the
\* connection, or the write fails.
C26_CommandWrittenAtMostOnce ==
    last.op = "send_command" => Len(last.sent) <= 1

\* an exchange on a usable link timed out without a response, and its
\* command went out once
C26_Witness ==
    /\ last.op = "send_command" /\ last.how = "silent"
    /\ ~last.resp.ok /\ Len(last.sent) = 1

\* C22: on a connected driver with a usable link, move_axis(axis, 0) sends
\* the two direction stops of that axis and nothing else, and
\* move_axis(axis, r) with r # 0 sends the set-rate command of that axis with
\* |r| (to the four decimals the command has) and then one start command:
\* east / north for r > 0, west / south for r < 0.
C22_MoveAxisCommandSequence ==
    (last.op = "move_axis" /\ last.conn /\ last.arg[1] \in {0, 1}
        /\ LinkUsable(connection_type, socket, serial)) =>
    LET axis == last.arg[1]
        r == last.arg[2]
        mag == IF r < 0 THEN 0 - r ELSE r
        names == [i \in DOMAIN last.sent |-> last.sent[i][1]]
    IN IF r = 0
       THEN names = (IF axis = 0 THEN <<":Qe#", ":Qw#">> ELSE <<":Qn#", ":Qs#">>)
       ELSE /\ Len(last.sent) = 2
            /\ names[1] = (IF axis = 0 THEN ":RA" ELSE ":RE")
            /\ last.sent[1][2] * 10 - mag \in -5 .. 5
            /\ r > 0 => names[2] = (IF axis = 0 THEN ":Me#" ELSE ":Mn#")
            /\ r < 0 => names[2] = (IF axis = 0 THEN ":Mw#" ELSE ":Ms#")

\* the declination axis was started southwards at the sidereal rate
C22_Witness ==
    /\ last.op = "move_axis" /\ last.arg = <<1, -418>>
    /\ last.sent = << <<":RE", 42>>, <<":Ms#", 0>> >>

\* C23: stop_all_movement() can be called in every state, returns None, and
\* on a connected driver with a usable link sends :Q#, :Qe#, :Qw#, :Qn#, :Qs#,
\* whether a slew session or a guide pulse is active or not.
C23_StopAllSendsHaltAndStops ==
    /\ ENABLED stop_all_movement
    /\ (last.op = "stop_all_movement") =>
          /\ last.ret = "None"
          /\ (last.conn /\ LinkUsable(connection_type, socket, serial)) =>
                last.sent = << <<":Q#", 0>>, <<":Qe#", 0>>, <<":Qw#", 0>>,
                               <<":Qn#", 0>>, <<":Qs#", 0>> >>

\* the stop was called during a slew session with a guide pulse active
C23_Witness ==
    /\ last.op = "stop_all_movement" /\ last.active /\ last.pulse
    /\ Len(last.sent) = 5

\* C30: after stop_all_movement() has returned, the next is_slewing() and
\* the next is_pulse_guiding() return False.
C30_StopAllEndsSlewingAndGuiding ==
    [][(last.op = "stop_all_movement" /\ last'.op \in {"is_slewing", "is_pulse_guiding"})
          => last'.ret = "False"]_vars

\* C24: the RA component of the separation a poll computes is nine
\* hundredths of an arcminute per 1e-4 h of the shorter arc between the
\* polled RA and the target RA: a raw difference above 12 h counts as 24 h
\* minus it, the component is never above the equivalent of 12 h, and target
\* 0.1 h with the mount at 23.9 h gives 180 arcmin.
C24_RaSeparationFolded ==
    [][(last' # last /\ last'.op = "is_slewing" /\ last'.ra_diff.ok /\ _slew_target.ok) =>
          LET raw == IF last'.ra.v > _slew_target.v[1]
                     THEN last'.ra.v - _slew_target.v[1]
                     ELSE _slew_target.v[1] - last'.ra.v
              short == IF raw > 120000 THEN 240000 - raw ELSE raw
          IN /\ last'.ra_diff.v = 9 * short
             /\ last'.ra_diff.v <= 9 * 120000
             /\ (_slew_target.v[1] = 1000 /\ last'.ra.v = 239000)
                   => last'.ra_diff.v = 18000]_vars

\* a poll found the mount at 23.9 h during a slew to 0.1 h and took the
\* 0.2 h across 0 h
C24_Witness ==
    /\ last.op = "is_slewing" /\ last.ra = Some(239000)
    /\ _slew_target.ok /\ _slew_target.v[1] = 1000
    /\ last.ra_diff = Some(18000)

\* C25: while a slew session lasts, only the start of another slew changes
\* the recorded target: no poll, whatever position it reads and whether it
\* starts or restarts the stability timer, and no clock step does; and the
\* client's target_ra / target_dec change only by the client's own writes,
\* never by a slew start, a poll or a stop.
C25_TargetIndependentOfPosition ==
    [][/\ (_slew_target.ok /\ _slew_target'.ok
             /\ ~(last' # last /\ last'.op \in {"slew_to_coords", "slew_to_altaz"}))
            => _slew_target' = _slew_target
       /\ (target_ra' # target_ra \/ target_dec' # target_dec)
            => last'.op \in {"put_targetrightascension", "put_targetdeclination"}]_vars

\* a poll near the target has recorded the position (10.0003 h, +20.005
\* deg) beside the target (10 h, +20 deg), which is also the client's target
C25_Witness ==
    /\ last.op = "is_slewing" /\ _last_position = Some(<<100003, 20005>>)
    /\ _slew_target = Some(<<100000, 20000>>)
    /\ target_ra = 100000 /\ target_dec = 20000

\* C28: a coordinate that is formatted and parsed again comes back within
\* half an arcsecond: within 0.5 / 15 s of time for hours in [0, 24), and
\* within 0.5 arcsecond for degrees in [-90, 90] and in [0, 360).
C28_FormatParseRoundTrip ==
    /\ last.op = "format_ra_hours" =>
          /\ 15 * (last.back - last.arg[1]) <= 500
          /\ 15 * (last.arg[1] - last.back) <= 500
    /\ last.op = "format_dec_degrees" =>
          /\ last.back - last.arg[2] <= 500
          /\ last.arg[2] - last.back <= 500

\* -00:30:59.995 degrees was written with a seconds field of 60.00 and a
\* minus sign, and read back as -00:31:00
C28_Witness ==
    /\ last.op = "format_dec_degrees" /\ last.arg[2] = 0 - 1859995
    /\ last.text = [sign |-> "-", whole |-> 0, minutes |-> 30, cs |-> 6000]
    /\ last.back = 0 - 1860000

\* C29: every ID returned by get_next_transaction_id() is greater than every
\* ID returned by a call that finished before the call began, and no two
\* calls return the same ID.
C29_TransactionIdsUniqueAndIncreasing ==
    /\ \A i \in DOMAIN returned : returned[i].id > returned[i].floor
    /\ \A i, j \in DOMAIN returned : i # j => returned[i].id # returned[j].id

\* C31: with backlash compensation enabled, the last motion of every move
\* that changes the position runs in one and the same direction.
C31_FinalApproachFromOneSide ==
    Cardinality(approaches) <= 1

\* C33: a slew_to_coords() or slew_to_altaz() call that returns False while
\* a slew session is active leaves that session as it was.
C33_RejectedSlewKeepsEarlierSession ==
    [][(_slew_target.ok /\ last' # last /\ last'.ret = "False"
          /\ last'.op \in {"slew_to_coords", "slew_to_altaz"})
         => UNCHANGED <<_slew_target, _slewing, _slew_start_time>>]_vars

\* C32: every slew or sync the device starts is to the RA / Dec pair of one
\* of the callers in progress, also when two threads call at the same time:
\* never to the RA of one with the Dec of the other.
C32_GotoUsesOneCallersPair ==
    \A i \in DOMAIN mount.started : mount.started[i].got \in mount.started[i].asked

\* C34: a poll that began before the latest accepted slew_to_coords() never
\* takes that slew's session away: while the session is not the one the
\* poll began under, no step of the poll changes the recorded target.
C34_PollSparesLaterSession ==
    [][(poll.pc # "idle" /\ poll' # poll /\ _slew_target.ok
          /\ last.op = "slew_to_coords" /\ last.ret = "True"
          /\ poll.began # <<_slew_target, _slew_start_time>>)
         => _slew_target' = _slew_target]_vars

\* C35: a pulse_guide() call whose command did not reach the device (the
\* driver is disconnected or has no usable link) returns False and does not
\* turn pulse_guiding on; so does a call whose command got no reply.
C35_UndeliveredPulseNotRecorded ==
    (last.op = "pulse_guide" /\ (last.sent = <<>> \/ ~last.reply.ok)) =>
        /\ last.ret = "False"
        /\ pulse_guiding => last.pulse

\* C36: a poll whose reading is less than 0.1 arcmin on the sky from the
\* reading remembered by the poll before it, the RA difference taken the
\* short way round 0 h / 24 h, does not restart the stability timer.
C36_JitterAcrossZeroHours ==
    [][(last' # last /\ last'.op = "is_slewing" /\ last'.ra_diff.ok
          /\ _position_stable_since.ok /\ _last_position.ok
          /\ LET raw == IF last'.ra.v > _last_position.v[1]
                        THEN last'.ra.v - _last_position.v[1]
                        ELSE _last_position.v[1] - last'.ra.v
                 dra == 9 * (IF raw > 120000 THEN 240000 - raw ELSE raw)
                 ddec == 6 * (IF last'.dec.v > _last_position.v[2]
                              THEN last'.dec.v - _last_position.v[2]
                              ELSE _last_position.v[2] - last'.dec.v)
             IN dra < 10 /\ ddec < 10 /\ dra * dra + ddec * ddec < 100)
         => (_position_stable_since' = _position_stable_since \/ ~_slew_target'.ok)]_vars

\* C37: disconnect() ends the tracked slew session and guide pulse: after it
\* the driver holds no slew session that has not timed out and no guide
\* pulse that has not expired, so that neither is reported after the driver
\* is connected again.
C37_DisconnectEndsSlewAndPulse ==
    [][(last' # last /\ last'.op = "disconnect")
         => /\ ~(_slew_target'.ok /\ _slew_start_time'.ok
                   /\ ~TimedOut(now' - _slew_start_time'.v))
            /\ ~(pulse_guiding' /\ ~PulseExpired(now' * 1000, pulse_guide_end_time'))]_vars

\* C38: when get_side_of_pier() takes the current side from the hour angle
\* (the device gave no side), should_flip_after_slew() asked about the
\* mount's own right ascension, at one sidereal time, reports no flip.
C38_FallbackAgreesWithDestination ==
    (/\ last.op = "should_flip_after_slew"
     /\ ~(HeardGm(last) /\ last.gm.v \in {"E", "W"})
     /\ last.rra.ok /\ last.lst.ok /\ last.lst2 = last.lst
     /\ last.arg[1] = last.rra.v)
    => last.ret = "False"

\* C39: a move_axis(axis, r) call with r # 0 whose set-rate command the
\* device answers with 0 sends nothing after that command: no directional
\* start command.
C39_RejectedRateStartsNoMotion ==
    (/\ last.op = "move_axis" /\ last.arg[2] # 0
     /\ last.reply = [ok |-> TRUE, v |-> "0"])
    => Len(last.sent) = 1

\* C40: a ZWO move that the device accepted and whose motor has stopped
\* goes on to return: the thread that has left the wait loop of
\* _move_without_backlash() can take the focuser lock for the final
\* get_position().
C40_ZwoMoveReleasesLock ==
    \A t \in RequestThreads :
        fmove[t].pc = "final" => ENABLED ZwoGetPosition(t)

====
